---- MODULE Spec2Model ----
(***************************************************************************)
(* Budget server actions (src/app/actions/budgets.ts): the recursive       *)
(* category total and the create / read / update / delete operations over  *)
(* the "budgets" table, each scoped to the authenticated user.             *)
(***************************************************************************)
EXTENDS Integers, Sequences, FiniteSets, TLC

VARIABLES
    cats,      \* SpecTree: the category tree handed to calculateTotalAllocated
    baseCats,  \* SpecTree: the tree as first drawn, before any sibling swap
    treeOut    \* SpecTree: <<>> before the call, <<result>> after it

VARIABLES
    budgets,              \* Spec: the rows of the "budgets" table
    nextId,               \* Spec: the id the datastore assigns to the next inserted row
    hasCategoriesColumn,  \* Spec: whether the table has the JSONB categories column
    last                  \* Spec: the last server action: its request, datastore calls, outcome

VARIABLES
    formTotal,       \* SpecViews: <<>> or <<totalAllocated>> of the budget form
    dashboardTotal,  \* SpecViews: <<>> or <<totalAllocated>> of BudgetDetails
    detailTotal      \* SpecViews: <<>> or <<totalAllocated>> of the budget detail page

VARIABLES
    formBudget,  \* SpecForm: <<>> for a new budget, <<id>> for the budget being edited
    formData,    \* SpecForm: the form's state: amount and categories
    loading,     \* SpecForm: a submission is awaiting the server action
    formCall     \* SpecForm: <<>> or the last server action the form called

VARIABLES
    pending,   \* SpecRace: for each request in flight, <<>> or its partial data and the update it will send
    supplied   \* SpecRace: history: for each column, <<>> or the value last supplied by an applied update

VARIABLES
    request,          \* SpecMiddleware: <<>> or the request the middleware is handling
    awaitingSession,  \* SpecMiddleware: the middleware is awaiting supabase.auth.getSession()
    response          \* SpecMiddleware: <<>> or the response the middleware returned

VARIABLES
    selectedTemplate,  \* SpecTemplates: <<>> or the template chosen in the dialog
    isLoading,         \* SpecTemplates: handleApplyTemplate is awaiting createBudget
    templateCall       \* SpecTemplates: <<>> or the data handleApplyTemplate called createBudget with

VARIABLES
    now,           \* SpecPersistence: the clock, in ticks of TickMs milliseconds
    localStorage,  \* SpecPersistence: the origin's localStorage: the session key and the expiry key
    written,       \* SpecPersistence: <<>> or the session last given to storeSession, with the time of the call
    read           \* SpecPersistence: <<>> or what the last getStoredSession returned, with the time of the call

VARIABLES
    locationPathname,  \* SpecTabs: window.location.pathname of each tab
    inbox,             \* SpecTabs: per tab, the storage events for the session key not yet dispatched
    awaiting,          \* SpecTabs: per tab, the calls of the auth client its async functions are suspended on
    authSession,       \* SpecTabs: <<>> or the session the auth client holds (shared by the tabs)
    lastAuthEvent      \* SpecTabs: the kind of the auth state change notified last, in any tab

VARIABLES
    bills,           \* SpecBills: public.bills: per bill id, its row (user_id, status)
    currentDate,     \* SpecBills: current_date of the database
    daily_activity,  \* SpecBills: public.daily_activity: the rows in insertion order
    awarded,         \* SpecBills: per bill id, the points passed to award_points by the trigger fired for it
    transitions      \* SpecBills: per bill id, the updates so far that changed its status into 'paid', and all updates

treeVars == <<cats, baseCats, treeOut>>
serverVars == <<budgets, nextId, hasCategoriesColumn, last>>
viewVars == <<formTotal, dashboardTotal, detailTotal>>
formVars == <<formBudget, formData, loading, formCall>>
raceVars == <<pending, supplied>>
middlewareVars == <<request, awaitingSession, response>>
templateVars == <<selectedTemplate, isLoading, templateCall>>
persistVars == <<now, localStorage, written, read>>
tabVars == <<locationPathname, inbox, awaiting, authSession, lastAuthEvent>>
billVars == <<bills, currentDate, daily_activity, awarded, transitions>>

vars == <<treeVars, serverVars, viewVars, formVars, raceVars, middlewareVars, templateVars, persistVars, tabVars, billVars>>

\* What lies outside the server actions and calculateTotalAllocated, and
\* its value while a specification does not run it.
components == <<viewVars, formVars, raceVars, middlewareVars, templateVars, persistVars, tabVars, billVars>>

ViewsOff ==
    formTotal = <<>> /\ dashboardTotal = <<>> /\ detailTotal = <<>>

FormOff ==
    formBudget = <<>> /\ formData = <<>> /\ loading = FALSE /\ formCall = <<>>

RaceOff ==
    pending = <<>> /\ supplied = <<>>

MiddlewareOff ==
    request = <<>> /\ awaitingSession = FALSE /\ response = <<>>

TemplatesOff ==
    selectedTemplate = <<>> /\ isLoading = FALSE /\ templateCall = <<>>

PersistOff ==
    now = 0 /\ localStorage = [session |-> <<>>, expiry |-> <<>>] /\ written = <<>> /\ read = <<>>

TabsOff ==
    locationPathname = <<>> /\ inbox = <<>> /\ awaiting = <<>> /\ authSession = <<>> /\ lastAuthEvent = "none"

BillsOff ==
    bills = <<>> /\ currentDate = 0 /\ daily_activity = <<>> /\ awarded = <<>> /\ transitions = <<>>

ComponentsOff ==
    ViewsOff /\ FormOff /\ RaceOff /\ MiddlewareOff /\ TemplatesOff /\ PersistOff /\ TabsOff /\ BillsOff

\* For each component, the other components.
besideViews == <<formVars, raceVars, middlewareVars, templateVars, persistVars, tabVars, billVars>>
BesideViewsOff ==
    FormOff /\ RaceOff /\ MiddlewareOff /\ TemplatesOff /\ PersistOff /\ TabsOff /\ BillsOff

besideForm == <<viewVars, raceVars, middlewareVars, templateVars, persistVars, tabVars, billVars>>
BesideFormOff ==
    ViewsOff /\ RaceOff /\ MiddlewareOff /\ TemplatesOff /\ PersistOff /\ TabsOff /\ BillsOff

besideRace == <<viewVars, formVars, middlewareVars, templateVars, persistVars, tabVars, billVars>>
BesideRaceOff ==
    ViewsOff /\ FormOff /\ MiddlewareOff /\ TemplatesOff /\ PersistOff /\ TabsOff /\ BillsOff

besideMiddleware == <<viewVars, formVars, raceVars, templateVars, persistVars, tabVars, billVars>>
BesideMiddlewareOff ==
    ViewsOff /\ FormOff /\ RaceOff /\ TemplatesOff /\ PersistOff /\ TabsOff /\ BillsOff

besideTemplates == <<viewVars, formVars, raceVars, middlewareVars, persistVars, tabVars, billVars>>
BesideTemplatesOff ==
    ViewsOff /\ FormOff /\ RaceOff /\ MiddlewareOff /\ PersistOff /\ TabsOff /\ BillsOff

besidePersist == <<viewVars, formVars, raceVars, middlewareVars, templateVars, tabVars, billVars>>
BesidePersistOff ==
    ViewsOff /\ FormOff /\ RaceOff /\ MiddlewareOff /\ TemplatesOff /\ TabsOff /\ BillsOff

besideTabs == <<viewVars, formVars, raceVars, middlewareVars, templateVars, billVars>>
BesideTabsOff ==
    ViewsOff /\ FormOff /\ RaceOff /\ MiddlewareOff /\ TemplatesOff /\ BillsOff

besideBills == <<viewVars, formVars, raceVars, middlewareVars, templateVars, persistVars, tabVars>>
BesideBillsOff ==
    ViewsOff /\ FormOff /\ RaceOff /\ MiddlewareOff /\ TemplatesOff /\ PersistOff /\ TabsOff

---------------------------------------------------------------------------
(* Bounds *)

\* Nodes in a generated category tree (all levels together).
MaxNodes == 3
\* Nesting depth of a generated category tree (1 = leaves only).
MaxDepth == 2
\* A JavaScript number is an IEEE-754 double: every sum is rounded to 53
\* significant bits, ties to even.  TLC's integers are 32 bits wide, so the
\* significand is scaled down to this many bits; the rounding rule is kept.
SignificandBits == 14

---------------------------------------------------------------------------
(* JavaScript values of BudgetCategory.amount *)

Num(n)    == [k |-> "number", n |-> n]
NaN       == [k |-> "NaN", n |-> 0]
Undefined == [k |-> "undefined", n |-> 0]

\* ToBoolean of an amount: undefined, NaN and 0 are falsy.
Truthy(v) == v.k = "number" /\ v.n # 0

\* The spacing of representable numbers around x (x >= 0).
RECURSIVE Ulp(_)
Ulp(x) == IF x < 2 ^ SignificandBits THEN 1 ELSE 2 * Ulp(x \div 2)

\* Round to nearest representable number, ties to even.
RoundNumber(x) ==
    LET u == Ulp(x)
        q == x \div u
        r == x % u
    IN  IF 2 * r < u THEN q * u
        ELSE IF 2 * r > u THEN (q + 1) * u
        ELSE IF q % 2 = 0 THEN q * u ELSE (q + 1) * u

\* a + b on two non-negative numbers.
JsAdd(a, b) == RoundNumber(a + b)

---------------------------------------------------------------------------
(* calculateTotalAllocated *)

\* category.amount || 0
AmountOrZero(category) ==
    IF Truthy(category.amount) THEN category.amount.n ELSE 0

\* Mutant: the parent's own amount is added to its subcategories' total.
RECURSIVE calculateTotalAllocatedParentCounted(_)
calculateTotalAllocatedParentCounted(categories) ==
    IF categories = <<>> THEN 0
    ELSE LET n        == Len(categories)
             category == categories[n]
             total    == calculateTotalAllocatedParentCounted(SubSeq(categories, 1, n - 1))
         IN  IF Len(category.subcategories) > 0
             THEN JsAdd(JsAdd(total, AmountOrZero(category)),
                        calculateTotalAllocatedParentCounted(category.subcategories))
             ELSE JsAdd(total, AmountOrZero(category))

\* The loop of lines 260-268: total starts at 0 and the categories are added
\* left to right; the value after the last category is the value after the
\* categories before it, plus the last one's contribution.
RECURSIVE calculateTotalAllocated(_)
calculateTotalAllocated(categories) ==
    IF categories = <<>> THEN 0
    ELSE LET n        == Len(categories)
             category == categories[n]
             total    == calculateTotalAllocated(SubSeq(categories, 1, n - 1))
         IN  IF Len(category.subcategories) > 0
             THEN JsAdd(total, calculateTotalAllocated(category.subcategories))
             ELSE JsAdd(total, AmountOrZero(category))

---------------------------------------------------------------------------
(* Category trees *)

Leaf(a) == [amount |-> a, subcategories |-> <<>>]
Parent(a, subs) == [amount |-> a, subcategories |-> subs]

LeafAmounts   == {Undefined, NaN, Num(1), Num(10), Num(20), Num(2 ^ SignificandBits)}
ParentAmounts == {Undefined, Num(9999)}

\* All forests (sequences of categories) of exactly n nodes and depth <= d.
RECURSIVE ForestsOfSize(_, _)
ForestsOfSize(n, d) ==
    IF n = 0 THEN {<<>>}
    ELSE IF d = 0 THEN {}
    ELSE UNION {
           LET firsts == IF k = 1
                         THEN {Leaf(a) : a \in LeafAmounts}
                         ELSE {Parent(a, s) : a \in ParentAmounts,
                                              s \in ForestsOfSize(k - 1, d - 1)}
           IN  {<<f>> \o rest : f \in firsts, rest \in ForestsOfSize(n - k, d)}
           : k \in 1..n }

Trees == UNION {ForestsOfSize(n, MaxDepth) : n \in 0..MaxNodes}

\* Positions of sibling lists: a path is the sequence of indexes leading to
\* the category whose subcategories are meant; <<>> is the root list.
RECURSIVE SiblingsAt(_, _)
SiblingsAt(forest, path) ==
    IF path = <<>> THEN forest
    ELSE SiblingsAt(forest[Head(path)].subcategories, Tail(path))

Paths == {<<>>} \cup {<<i>> : i \in 1..MaxNodes}

ValidPath(forest, path) ==
    IF Len(path) = 0 THEN TRUE
    ELSE IF path[1] > Len(forest) THEN FALSE
    ELSE Len(forest[path[1]].subcategories) > 0

SwapAdjacent(s, i) ==
    [j \in 1..Len(s) |-> IF j = i THEN s[i + 1] ELSE IF j = i + 1 THEN s[i] ELSE s[j]]

\* The forest with siblings i and i+1 of the list at path exchanged.
RECURSIVE SwapAt(_, _, _)
SwapAt(forest, path, i) ==
    IF path = <<>> THEN SwapAdjacent(forest, i)
    ELSE [forest EXCEPT ![Head(path)].subcategories = SwapAt(@, Tail(path), i)]

---------------------------------------------------------------------------
(* The "budgets" table and the values the server actions handle *)

\* Rows the table may hold at once / ids the datastore hands out.
MaxBudgets == 2
\* Fields a partial update supplies at most.
MaxSupplied == 2

Users  == {"u1", "u2"}
NoUser == "none"            \* getAuthenticatedUser() returned null

\* Date values as JavaScript sees them.
JsUndefined == "undefined"  \* the property is absent
JsNull      == "null"
D1 == "2024-01-01"
D2 == "2024-02-01"
RealDates == {D1, D2}
SubmittedDates == {"", JsNull} \cup RealDates

\* The JSONB categories column: SQL NULL or an array of categories.
JNull     == [k |-> "null", v |-> <<>>]
JArray(t) == [k |-> "array", v |-> t]

TripTree == << Leaf(Num(400)),
               Parent(Num(300), <<Leaf(Num(150)), Leaf(Num(150))>>) >>
RentTree == << Leaf(Num(250)) >>

Ids == 1..MaxBudgets

\* A request payload: the keys in has are the properties the object
\* carries; a key outside has holds a fixed filler that is never read.
Payload(has, name, amount, start, end, categories, uid, id) ==
    [has |-> has, name |-> name, amount |-> amount, start_date |-> start,
     end_date |-> end, categories |-> categories, user_id |-> uid, id |-> id]

EmptyPayload == Payload({}, "", 0, "", "", JNull, "", 0)

\* payload[key], with undefined for an absent date property.
DateProp(payload, key) ==
    IF key \in payload.has THEN payload[key] ELSE JsUndefined

\* x == null
LooseNull(x) == x \in {JsNull, JsUndefined}
\* !x
Falsy(x) == x \in {JsNull, JsUndefined, ""}

SetProp(payload, key, value) ==
    [payload EXCEPT !.has = @ \cup {key}, ![key] = value]

\* const { key, ...rest } = payload
OmitProp(payload, key) ==
    [payload EXCEPT !.has = @ \ {key}, ![key] = EmptyPayload[key]]

---------------------------------------------------------------------------
(* The datastore (Supabase / PostgREST over the budgets table) *)

NoError == ""
UndefinedColumn  == "42703"     \* SQL: column does not exist
SchemaCacheMiss  == "PGRST204"  \* PostgREST: column not found in the payload
NoRowsForSingle  == "PGRST116"  \* .single() on an empty result
NotNullViolation == "23502"
UniqueViolation  == "23505"
InvalidDate      == "22007"
ConnectionError  == "08006"     \* any other datastore failure

\* Mutant: no error is taken for a missing column.
IsSchemaMismatchNever(code) == FALSE

\* Mutant: every error is taken for a missing column.
IsSchemaMismatchAnyError(code) == code # NoError

IsSchemaMismatch(code) == code \in {UndefinedColumn, SchemaCacheMiss}

DbResult(error, rows, data) == [error |-> error, rows |-> rows, data |-> data]

Columns == {"id", "user_id", "name", "amount", "start_date", "end_date", "categories"}

\* The row a payload turns an existing row into (UPDATE ... SET).
PatchRow(row, payload) ==
    [c \in Columns |-> IF c \in payload.has THEN payload[c] ELSE row[c]]

\* Mutant: the table has a CHECK that the allocations fit in the amount.
RowViolationAllocationChecked(row, others) ==
    IF row.start_date = JsNull \/ row.end_date = JsNull THEN NotNullViolation
    ELSE IF row.start_date = "" \/ row.end_date = "" THEN InvalidDate
    ELSE IF \E o \in others : o.id = row.id THEN UniqueViolation
    ELSE IF row.categories.k = "array"
            /\ calculateTotalAllocated(row.categories.v) > row.amount THEN "23514"
    ELSE NoError

\* The constraint a row breaks, if any.  start_date and end_date are NOT
\* NULL date columns, id is the primary key.
RowViolation(row, others) ==
    IF row.start_date = JsNull \/ row.end_date = JsNull THEN NotNullViolation
    ELSE IF row.start_date = "" \/ row.end_date = "" THEN InvalidDate
    ELSE IF \E o \in others : o.id = row.id THEN UniqueViolation
    ELSE NoError

\* from("budgets").insert(payload).select().single()
DbInsert(rows, payload, newId, columnExists, fails) ==
    IF fails THEN DbResult(ConnectionError, rows, <<>>)
    ELSE IF "categories" \in payload.has /\ ~columnExists
    THEN DbResult(SchemaCacheMiss, rows, <<>>)
    ELSE LET blank == [c \in Columns |->
                          IF c = "id" THEN newId
                          ELSE IF c = "categories" THEN JNull
                          ELSE IF c \in {"start_date", "end_date"} THEN JsNull
                          ELSE EmptyPayload[c]]
             row   == PatchRow(blank, payload)
             bad   == RowViolation(row, rows)
         IN  IF bad # NoError THEN DbResult(bad, rows, <<>>)
             ELSE DbResult(NoError, rows \cup {row}, <<row>>)

\* Mutant: the update is filtered by id only.
DbUpdateAnyOwner(rows, payload, id, uid, columnExists, fails) ==
    IF fails THEN DbResult(ConnectionError, rows, <<>>)
    ELSE IF "categories" \in payload.has /\ ~columnExists
    THEN DbResult(SchemaCacheMiss, rows, <<>>)
    ELSE LET hit == {r \in rows : r.id = id}
         IN  IF hit = {} THEN DbResult(NoRowsForSingle, rows, <<>>)
             ELSE LET old == CHOOSE r \in hit : TRUE
                      new == PatchRow(old, payload)
                      bad == RowViolation(new, rows \ {old})
                  IN  IF bad # NoError THEN DbResult(bad, rows, <<>>)
                      ELSE DbResult(NoError, (rows \ {old}) \cup {new}, <<new>>)

\* from("budgets").update(payload).eq("id", id).eq("user_id", uid).select().single()
DbUpdate(rows, payload, id, uid, columnExists, fails) ==
    IF fails THEN DbResult(ConnectionError, rows, <<>>)
    ELSE IF "categories" \in payload.has /\ ~columnExists
    THEN DbResult(SchemaCacheMiss, rows, <<>>)
    ELSE LET hit == {r \in rows : r.id = id /\ r.user_id = uid}
         IN  IF hit = {} THEN DbResult(NoRowsForSingle, rows, <<>>)
             ELSE LET old == CHOOSE r \in hit : TRUE
                      new == PatchRow(old, payload)
                      bad == RowViolation(new, rows \ {old})
                  IN  IF bad # NoError THEN DbResult(bad, rows, <<>>)
                      ELSE DbResult(NoError, (rows \ {old}) \cup {new}, <<new>>)

\* Mutant: deleting a row that is not there is an error.
DbDeleteMustHit(rows, id, uid, fails) ==
    IF fails THEN DbResult(ConnectionError, rows, <<>>)
    ELSE IF ~\E r \in rows : r.id = id /\ r.user_id = uid
    THEN DbResult(NoRowsForSingle, rows, <<>>)
    ELSE DbResult(NoError, {r \in rows : ~(r.id = id /\ r.user_id = uid)}, <<>>)

\* Mutant: the delete reports success and removes nothing.
DbDeleteKeepsRow(rows, id, uid, fails) ==
    IF fails THEN DbResult(ConnectionError, rows, <<>>)
    ELSE DbResult(NoError, rows, <<>>)

\* from("budgets").delete().eq("id", id).eq("user_id", uid)
DbDelete(rows, id, uid, fails) ==
    IF fails THEN DbResult(ConnectionError, rows, <<>>)
    ELSE DbResult(NoError, {r \in rows : ~(r.id = id /\ r.user_id = uid)}, <<>>)

\* from("budgets").select("*").eq("id", id).eq("user_id", uid).single()
DbSelectSingle(rows, id, uid, fails) ==
    IF fails THEN DbResult(ConnectionError, rows, <<>>)
    ELSE LET hit == {r \in rows : r.id = id /\ r.user_id = uid}
         IN  IF hit = {} THEN DbResult(NoRowsForSingle, rows, <<>>)
             ELSE DbResult(NoError, rows, <<CHOOSE r \in hit : TRUE>>)

---------------------------------------------------------------------------
(* The server actions *)

\* One datastore call: the statement, its payload (for a select, the column
\* list as the payload's key set) and the error code it came back with.
Call(kind, payload, error) == [kind |-> kind, payload |-> payload, error |-> error]

\* .select("id, name, amount, start_date, end_date, categories") and the
\* fallback list without categories (lines 44 and 53).
SelectList(columns) == [EmptyPayload EXCEPT !.has = columns]
ListColumns == {"id", "name", "amount", "start_date", "end_date", "categories"}

\* What `last` records of one server action: the caller, the id and payload
\* it passed (the payload as far as the action got to read it), the
\* datastore calls issued in order, the message of the Error thrown ("" if
\* none), the datastore error code behind it, and the value returned.
Outcome(op, user, id, data, calls, thrown, code, result) ==
    [op |-> op, user |-> user, id |-> id, data |-> data, calls |-> calls,
     thrown |-> thrown, code |-> code, result |-> result]

ClientFailed   == "Failed to create Supabase client"
AuthRequired   == "Authentication required"
StartRequired  == "Start date is required and cannot be empty."
StartNotEmpty  == "Start date cannot be updated to be empty."
CreateFailed   == "Error creating budget"
UpdateFailed   == "Error updating budget"
DeleteFailed   == "Failed to delete budget"
FetchFailed    == "Failed to fetch budget"
FetchAllFailed == "Failed to fetch budgets"

Callers == Users \cup {NoUser}

EmptyOutcome == Outcome("none", NoUser, 0, EmptyPayload, <<>>, "", NoError, <<>>)

\* Mutant: the user check is skipped.
PreambleNoUserCheck(client, user) ==
    IF ~client THEN ClientFailed ELSE ""

\* Lines 109-112, 168-171, 231-234, 81-84: the client and the user are
\* resolved first; the message thrown when one of them is missing.
Preamble(client, user) ==
    IF ~client THEN ClientFailed
    ELSE IF user = NoUser THEN AuthRequired
    ELSE ""

\* Lines 115-128: the payload createBudget inserts, or <<>> when it throws.
\* Mutant: a blank end_date is filled with a fixed date instead of start_date.
CreateInsertDataFixedEnd(data, uid) ==
    LET insertData == SetProp(data, "user_id", uid)
        blanked    == IF DateProp(insertData, "end_date") = ""
                      THEN SetProp(insertData, "end_date", JsNull)
                      ELSE insertData
    IN  IF Falsy(DateProp(blanked, "start_date")) THEN <<>>
        ELSE IF LooseNull(DateProp(blanked, "end_date"))
             THEN <<SetProp(blanked, "end_date", D2)>>
             ELSE <<blanked>>

\* Mutant: a user_id in the submitted data wins over the caller's.
CreateInsertDataSubmittedOwner(data, uid) ==
    LET insertData == IF "user_id" \in data.has THEN data ELSE SetProp(data, "user_id", uid)
        blanked    == IF DateProp(insertData, "end_date") = ""
                      THEN SetProp(insertData, "end_date", JsNull)
                      ELSE insertData
    IN  IF Falsy(DateProp(blanked, "start_date")) THEN <<>>
        ELSE IF LooseNull(DateProp(blanked, "end_date"))
             THEN <<SetProp(blanked, "end_date", blanked.start_date)>>
             ELSE <<blanked>>

\* Mutant: the start_date check is skipped.
CreateInsertDataNoStartCheck(data, uid) ==
    LET insertData == SetProp(data, "user_id", uid)
        blanked    == IF DateProp(insertData, "end_date") = ""
                      THEN SetProp(insertData, "end_date", JsNull)
                      ELSE insertData
    IN  IF LooseNull(DateProp(blanked, "end_date"))
        THEN <<SetProp(blanked, "end_date", DateProp(blanked, "start_date"))>>
        ELSE <<blanked>>

CreateInsertData(data, uid) ==
    LET insertData == SetProp(data, "user_id", uid)
        blanked    == IF DateProp(insertData, "end_date") = ""
                      THEN SetProp(insertData, "end_date", JsNull)
                      ELSE insertData
    IN  IF Falsy(DateProp(blanked, "start_date")) THEN <<>>
        ELSE IF LooseNull(DateProp(blanked, "end_date"))
             THEN <<SetProp(blanked, "end_date", blanked.start_date)>>
             ELSE <<blanked>>

\* Mutant: end_date is never filled from start_date.
UpdateDataEndNotFilled(data) ==
    LET blanked == IF DateProp(data, "end_date") = ""
                   THEN SetProp(data, "end_date", JsNull)
                   ELSE data
    IN  IF DateProp(blanked, "start_date") = "" THEN <<>>
        ELSE IF LooseNull(DateProp(blanked, "end_date"))
             THEN <<OmitProp(blanked, "end_date")>>
             ELSE <<blanked>>

\* Lines 174-186: the payload updateBudget sends, or <<>> when it throws.
UpdateData(data) ==
    LET blanked == IF DateProp(data, "end_date") = ""
                   THEN SetProp(data, "end_date", JsNull)
                   ELSE data
    IN  IF DateProp(blanked, "start_date") = "" THEN <<>>
        ELSE IF LooseNull(DateProp(blanked, "end_date"))
                /\ ~Falsy(DateProp(blanked, "start_date"))
             THEN <<SetProp(blanked, "end_date", blanked.start_date)>>
             ELSE <<blanked>>

\* Payloads createBudget is called with: name, amount and categories as the
\* Budget type requires, the dates and a user_id optionally (the argument is
\* cast to any, so a submitted user_id is possible).
CreatePayloads ==
    { Payload({"name", "amount", "categories"} \cup opt, "Trip", 1000,
              IF "start_date" \in opt THEN sd ELSE "",
              IF "end_date" \in opt THEN ed ELSE "",
              JArray(TripTree),
              IF "user_id" \in opt THEN uid ELSE "", 0)
      : opt \in SUBSET {"start_date", "end_date", "user_id"},
        sd \in SubmittedDates, ed \in SubmittedDates, uid \in Users }

\* Payloads updateBudget is called with: any non-empty choice of at most
\* MaxSupplied of these properties.
UpdatableKeys == {"amount", "start_date", "end_date", "categories", "user_id", "id"}

UpdatePayloads ==
    { Payload(has,
              "",
              IF "amount" \in has THEN 500 ELSE 0,
              IF "start_date" \in has THEN sd ELSE "",
              IF "end_date" \in has THEN ed ELSE "",
              IF "categories" \in has THEN JArray(RentTree) ELSE JNull,
              IF "user_id" \in has THEN uid ELSE "",
              IF "id" \in has THEN id ELSE 0)
      : has \in {h \in SUBSET UpdatableKeys : Cardinality(h) \in 1..MaxSupplied},
        sd \in SubmittedDates, ed \in SubmittedDates, uid \in Users, id \in Ids }

\* Each server action is one request: it runs from an idle server and leaves
\* its outcome in `last` until the caller has taken it.
Idle == last.op = "none"

\* createBudget(budgetData), lines 108-162.
createBudgetWith(payloads, faults) ==
    /\ Idle
    /\ \E client \in BOOLEAN, user \in Callers :
      LET pre == Preamble(client, user)
      IN  IF pre # ""
          THEN /\ last' = Outcome("createBudget", user, 0, EmptyPayload, <<>>, pre, NoError, <<>>)
               /\ UNCHANGED <<budgets, nextId>>
          ELSE \E data \in payloads, fails \in faults, failsAgain \in faults :
                 /\ nextId <= MaxBudgets
                 /\ LET prepared == CreateInsertData(data, user)
                    IN  IF prepared = <<>>
                        THEN /\ last' = Outcome("createBudget", user, 0, data, <<>>,
                                                StartRequired, NoError, <<>>)
                             /\ UNCHANGED <<budgets, nextId>>
                        ELSE LET insertData == prepared[1]
                                 first    == DbInsert(budgets, insertData, nextId,
                                                      hasCategoriesColumn, fails)
                                 fallbackData == OmitProp(insertData, "categories")
                                 second   == DbInsert(budgets, fallbackData, nextId,
                                                      hasCategoriesColumn, failsAgain)
                                 retried  == IsSchemaMismatch(first.error)
                                 final    == IF retried THEN second ELSE first
                                 calls    == IF retried
                                             THEN <<Call("insert", insertData, first.error),
                                                    Call("insert", fallbackData, second.error)>>
                                             ELSE <<Call("insert", insertData, first.error)>>
                             IN  /\ (~retried => ~failsAgain)
                                 /\ budgets' = final.rows
                                 /\ nextId' = IF final.error = NoError THEN nextId + 1 ELSE nextId
                                 /\ last' = Outcome("createBudget", user, 0, data, calls,
                                                    IF final.error = NoError THEN "" ELSE CreateFailed,
                                                    final.error, final.data)
    /\ UNCHANGED <<cats, baseCats, treeOut, hasCategoriesColumn>>
    /\ UNCHANGED components

\* updateBudget(id, budgetData), lines 167-225.
updateBudgetWith(payloads, faults) ==
    /\ Idle
    /\ \E client \in BOOLEAN, user \in Callers, id \in Ids :
      LET pre == Preamble(client, user)
      IN  IF pre # ""
          THEN /\ last' = Outcome("updateBudget", user, id, EmptyPayload, <<>>, pre, NoError, <<>>)
               /\ UNCHANGED budgets
          ELSE \E data \in payloads, fails \in faults, failsAgain \in faults :
                 LET prepared == UpdateData(data)
                 IN  IF prepared = <<>>
                     THEN /\ last' = Outcome("updateBudget", user, id, data, <<>>,
                                             StartNotEmpty, NoError, <<>>)
                          /\ UNCHANGED budgets
                     ELSE LET updateData == prepared[1]
                              first    == DbUpdate(budgets, updateData, id, user,
                                                   hasCategoriesColumn, fails)
                              fallbackData == OmitProp(updateData, "categories")
                              second   == DbUpdate(budgets, fallbackData, id, user,
                                                   hasCategoriesColumn, failsAgain)
                              retried  == IsSchemaMismatch(first.error)
                              final    == IF retried THEN second ELSE first
                              calls    == IF retried
                                          THEN <<Call("update", updateData, first.error),
                                                 Call("update", fallbackData, second.error)>>
                                          ELSE <<Call("update", updateData, first.error)>>
                          IN  /\ (~retried => ~failsAgain)
                              /\ budgets' = final.rows
                              /\ last' = Outcome("updateBudget", user, id, data, calls,
                                                 IF final.error = NoError THEN "" ELSE UpdateFailed,
                                                 final.error, final.data)
    /\ UNCHANGED <<cats, baseCats, treeOut, nextId, hasCategoriesColumn>>
    /\ UNCHANGED components

\* deleteBudget(id), lines 230-250.
deleteBudgetWith(faults) ==
    /\ Idle
    /\ \E client \in BOOLEAN, user \in Callers, id \in Ids :
      LET pre == Preamble(client, user)
      IN  IF pre # ""
          THEN /\ last' = Outcome("deleteBudget", user, id, EmptyPayload, <<>>, pre, NoError, <<>>)
               /\ UNCHANGED budgets
          ELSE \E fails \in faults :
                 LET done == DbDelete(budgets, id, user, fails)
                 IN  /\ budgets' = done.rows
                     /\ last' = Outcome("deleteBudget", user, id, EmptyPayload,
                                        <<Call("delete", EmptyPayload, done.error)>>,
                                        IF done.error = NoError THEN "" ELSE DeleteFailed,
                                        done.error, <<>>)
    /\ UNCHANGED <<cats, baseCats, treeOut, nextId, hasCategoriesColumn>>
    /\ UNCHANGED components

\* A budget as the read actions return it: the row plus total_allocated
\* (lines 70-74 and 99-102); `categories || []` turns NULL into [].
CategoriesOrEmpty(row) ==
    IF row.categories.k = "array" THEN row.categories.v ELSE <<>>

\* Mutant: total_allocated is not computed from the tree.
WithTotalOfNothing(row, categories) ==
    [id |-> row.id, user_id |-> row.user_id, name |-> row.name, amount |-> row.amount,
     start_date |-> row.start_date, end_date |-> row.end_date,
     categories |-> categories,
     total_allocated |-> 0]

WithTotal(row, categories) ==
    [id |-> row.id, user_id |-> row.user_id, name |-> row.name, amount |-> row.amount,
     start_date |-> row.start_date, end_date |-> row.end_date,
     categories |-> categories,
     total_allocated |-> calculateTotalAllocated(CategoriesOrEmpty(row))]

\* getBudgetById(id), lines 80-103.
getBudgetByIdWith(faults) ==
    /\ Idle
    /\ \E client \in BOOLEAN, user \in Callers, id \in Ids :
      LET pre == Preamble(client, user)
      IN  IF pre # ""
          THEN last' = Outcome("getBudgetById", user, id, EmptyPayload, <<>>, pre, NoError, <<>>)
          ELSE \E fails \in faults :
                 LET got == DbSelectSingle(budgets, id, user, fails)
                 IN  last' = Outcome("getBudgetById", user, id, EmptyPayload,
                                     <<Call("select", EmptyPayload, got.error)>>,
                                     IF got.error = NoError THEN "" ELSE FetchFailed,
                                     got.error,
                                     IF got.error = NoError
                                     THEN <<WithTotal(got.data[1], got.data[1].categories)>>
                                     ELSE <<>>)
    /\ UNCHANGED <<cats, baseCats, treeOut, budgets, nextId, hasCategoriesColumn>>
    /\ UNCHANGED components

\* Position of a stored date in calendar order.
DateRank(d) == IF d = D1 THEN 1 ELSE IF d = D2 THEN 2 ELSE 0

\* Mutant: the rows come oldest first.
OrderedByStartAsc(rows) ==
    LET n == Cardinality(rows)
    IN  { q \in [1..n -> rows] :
            /\ \A i, j \in 1..n : i # j => q[i] # q[j]
            /\ \A i \in 1..(n - 1) : DateRank(q[i].start_date) <= DateRank(q[i + 1].start_date) }

\* .order("start_date", { ascending: false }): every arrangement of the rows
\* with start_date never increasing (rows of equal start_date come in any order).
OrderedByStartDesc(rows) ==
    LET n == Cardinality(rows)
    IN  { q \in [1..n -> rows] :
            /\ \A i, j \in 1..n : i # j => q[i] # q[j]
            /\ \A i \in 1..(n - 1) : DateRank(q[i].start_date) >= DateRank(q[i + 1].start_date) }

\* getBudgets(), lines 36-75.
getBudgetsWith(faults) ==
    /\ Idle
    /\ \E client \in BOOLEAN, user \in Callers :
      IF ~client \/ user = NoUser
      THEN last' = Outcome("getBudgets", user, 0, EmptyPayload, <<>>, "", NoError, <<>>)
      ELSE \E fails \in faults, failsAgain \in faults :
             LET mine    == {r \in budgets : r.user_id = user}
                 first   == IF fails THEN ConnectionError
                            ELSE IF ~hasCategoriesColumn THEN UndefinedColumn ELSE NoError
                 retried == first = UndefinedColumn
                 second  == IF failsAgain THEN ConnectionError ELSE NoError
                 final   == IF retried THEN second ELSE first
                 calls   == IF retried
                            THEN <<Call("select", SelectList(ListColumns), first),
                                   Call("select", SelectList(ListColumns \ {"categories"}), second)>>
                            ELSE <<Call("select", SelectList(ListColumns), first)>>
             IN  /\ (~retried => ~failsAgain)
                 /\ IF final # NoError
                    THEN last' = Outcome("getBudgets", user, 0, EmptyPayload, calls,
                                         FetchAllFailed, final, <<>>)
                    ELSE \E q \in OrderedByStartDesc(mine) :
                           last' = Outcome("getBudgets", user, 0, EmptyPayload, calls, "", NoError,
                                           [i \in 1..Len(q) |->
                                              WithTotal(q[i], JArray(CategoriesOrEmpty(q[i])))])
    /\ UNCHANGED <<cats, baseCats, treeOut, budgets, nextId, hasCategoriesColumn>>
    /\ UNCHANGED components

---------------------------------------------------------------------------
(* Spec: the server actions over the budgets table *)

\* Under Spec every datastore call gets through to the table.
NoFaults == {FALSE}

createBudget  == createBudgetWith(CreatePayloads, NoFaults)
updateBudget  == updateBudgetWith(UpdatePayloads, NoFaults)
deleteBudget  == deleteBudgetWith(NoFaults)
getBudgetById == getBudgetByIdWith(NoFaults)
getBudgets    == getBudgetsWith(NoFaults)

Init ==
    /\ ComponentsOff
    /\ cats = <<>>
    /\ baseCats = <<>>
    /\ treeOut = <<>>
    /\ budgets = {}
    /\ nextId = 1
    /\ hasCategoriesColumn \in BOOLEAN
    /\ last = EmptyOutcome

\* The awaiting caller receives the outcome of the action.
Respond ==
    /\ ~Idle
    /\ last' = EmptyOutcome
    /\ UNCHANGED <<cats, baseCats, treeOut, budgets, nextId, hasCategoriesColumn>>
    /\ UNCHANGED components

Next ==
    \/ Respond
    \/ createBudget
    \/ updateBudget
    \/ deleteBudget
    \/ getBudgetById
    \/ getBudgets

Spec == Init /\ [][Next]_vars

---------------------------------------------------------------------------
(* SpecFaults: the same actions when a datastore call may fail *)

\* A datastore call either gets through or fails for a reason of its own
\* (connectivity).
Faults == BOOLEAN

\* createBudget as the form calls it: a real start_date, an end_date or
\* none, no user_id.
FormCreatePayloads ==
    {p \in CreatePayloads :
       /\ "user_id" \notin p.has
       /\ "start_date" \in p.has /\ p.start_date \in RealDates}

\* updateBudget with one of amount, categories or end_date.
SinglePropertyPayloads ==
    {p \in UpdatePayloads : p.has \in {{"amount"}, {"categories"}, {"end_date"}}}

\* The same with an amount below what the Trip tree allocates.
OverAllocatedPayloads == {[p EXCEPT !.amount = 500] : p \in FormCreatePayloads}

createBudgetFaulty  == createBudgetWith(FormCreatePayloads \cup OverAllocatedPayloads, Faults)
updateBudgetFaulty  == updateBudgetWith(SinglePropertyPayloads, Faults)
deleteBudgetFaulty  == deleteBudgetWith(Faults)
getBudgetByIdFaulty == getBudgetByIdWith(Faults)
getBudgetsFaulty    == getBudgetsWith(Faults)

NextFaults ==
    \/ Respond
    \/ createBudgetFaulty
    \/ updateBudgetFaulty
    \/ deleteBudgetFaulty
    \/ getBudgetByIdFaulty
    \/ getBudgetsFaulty

SpecFaults == Init /\ [][NextFaults]_vars

---------------------------------------------------------------------------
(* SpecTree: calculateTotalAllocated as a pure function *)

InitTree ==
    /\ ComponentsOff
    /\ cats \in Trees
    /\ baseCats = cats
    /\ treeOut = <<>>
    /\ budgets = {}
    /\ nextId = 1
    /\ hasCategoriesColumn = TRUE
    /\ last = EmptyOutcome

\* A caller evaluates calculateTotalAllocated(cats).
Calculate ==
    /\ treeOut = <<>>
    /\ treeOut' = <<calculateTotalAllocated(cats)>>
    /\ UNCHANGED <<cats, baseCats, budgets, nextId, hasCategoriesColumn, last>>
    /\ UNCHANGED components

\* Two adjacent siblings of one list change places and the total is
\* computed again on the permuted tree.
PermuteSiblings ==
    /\ treeOut # <<>>
    /\ \E path \in Paths :
         /\ ValidPath(cats, path)
         /\ \E i \in 1..(Len(SiblingsAt(cats, path)) - 1) :
              /\ cats' = SwapAt(cats, path, i)
              /\ treeOut' = <<calculateTotalAllocated(cats')>>
    /\ UNCHANGED <<baseCats, budgets, nextId, hasCategoriesColumn, last>>
    /\ UNCHANGED components

NextTree == Calculate \/ PermuteSiblings

SpecTree == InitTree /\ [][NextTree]_vars

---------------------------------------------------------------------------
(* Claims about calculateTotalAllocated (checked under SpecTree) *)

\* The effective allocation of one category: its amount if it has no
\* subcategories (0 when the amount is missing or not a number), otherwise
\* the sum of its subcategories' effective allocations.
RECURSIVE EffectiveAllocation(_), SumEffective(_, _)
EffectiveAllocation(category) ==
    IF category.subcategories # <<>>
    THEN SumEffective(0, category.subcategories)
    ELSE IF category.amount.k = "number" THEN category.amount.n ELSE 0
SumEffective(acc, categories) ==
    IF categories = <<>> THEN acc
    ELSE SumEffective(JsAdd(acc, EffectiveAllocation(Head(categories))), Tail(categories))

ParentExample == <<Parent(Num(9999), <<Leaf(Num(10)), Leaf(Num(20))>>)>>

\* C1: calculateTotalAllocated returns the sum over the root categories of
\* their effective allocations: a category with subcategories contributes
\* its subcategories' sum and not its own amount, a leaf contributes its
\* amount, a missing or NaN amount counts as 0; the parent of 9999 with
\* leaves 10 and 20 totals 30.
C1_TotalIsSumOfEffectiveAllocations ==
    treeOut # <<>> =>
        /\ treeOut[1] = SumEffective(0, cats)
        /\ (cats = ParentExample => treeOut[1] = 30)

C1_Witness ==
    /\ treeOut = <<30>>
    /\ cats = ParentExample

\* C2: permuting siblings at any level leaves the total unchanged: the
\* total of every tree reached by sibling swaps equals the total of the
\* tree the swaps started from.
C2_SiblingOrderIrrelevant ==
    treeOut # <<>> => treeOut[1] = calculateTotalAllocated(baseCats)

---------------------------------------------------------------------------
(* Claims about the server actions (checked under Spec) *)

\* The action got past the client and user checks and read its arguments.
PassedPreamble == last.thrown \notin {ClientFailed, AuthRequired}

Succeeded(op) == last.op = op /\ last.user \in Users /\ last.thrown = ""

\* x is '' , null or undefined
Blank(x) == x \in {"", JsNull, JsUndefined}

\* C3: an action by one user neither changes nor removes a budget of another
\* owner and returns no such budget: every row owned by someone else before
\* the action is in the table unchanged after it, getBudgets returns only
\* rows of the caller, and no returned budget carries the id of another
\* owner's row.
C3_OtherOwnersUntouched ==
    [][ (Idle /\ last'.op # "none") =>
          /\ \A r \in budgets : r.user_id # last'.user => r \in budgets'
          /\ \A i \in DOMAIN last'.result :
               /\ last'.op = "getBudgets" => last'.result[i].user_id = last'.user
               /\ \A r \in budgets :
                    r.user_id # last'.user => r.id # last'.result[i].id ]_vars

\* A signed-in user updated, deleted or fetched by the id of a row that
\* belongs to someone else.
C3_Witness ==
    /\ last.op \in {"updateBudget", "deleteBudget", "getBudgetById"}
    /\ last.user \in Users
    /\ last.calls # <<>>
    /\ last.result = <<>>
    /\ \E r \in budgets : r.id = last.id /\ r.user_id # last.user

\* C4: the owner of a stored budget never changes: a row that is in the
\* table before and after a step has the same user_id.
C4_OwnerImmutable ==
    [][ \A r \in budgets, q \in budgets' : q.id = r.id => q.user_id = r.user_id ]_vars

\* C5: createBudget with start_date '', null or missing throws the
\* validation error and issues no insert, neither the first nor the fallback.
C5_CreateRequiresStartDate ==
    (last.op = "createBudget" /\ PassedPreamble
       /\ Blank(DateProp(last.data, "start_date")))
    => (last.thrown = StartRequired /\ last.calls = <<>>)

C5_Witness ==
    /\ last.op = "createBudget"
    /\ last.user \in Users
    /\ "start_date" \notin last.data.has
    /\ last.thrown = StartRequired

\* C6: updateBudget with a start_date that is present and blank ('' or null)
\* throws the validation error and issues no update.
C6_UpdateRejectsBlankStartDate ==
    (last.op = "updateBudget" /\ PassedPreamble
       /\ "start_date" \in last.data.has /\ last.data.start_date \in {"", JsNull})
    => (last.thrown = StartNotEmpty /\ last.calls = <<>>)

\* C7: after a successful createBudget whose end_date was omitted, null or
\* '', the stored row has end_date equal to its start_date (the submitted one).
C7_CreateBlankEndIsStart ==
    (Succeeded("createBudget") /\ Blank(DateProp(last.data, "end_date")))
    => /\ last.result[1] \in budgets
       /\ last.result[1].start_date = last.data.start_date
       /\ last.result[1].end_date = last.result[1].start_date

C7_Witness ==
    /\ Succeeded("createBudget")
    /\ DateProp(last.data, "end_date") = ""
    /\ last.result[1].end_date = D2

\* C8 as claimed: after a successful updateBudget whose end_date was omitted
\* or '', the stored row has end_date equal to start_date, whether or not
\* start_date was supplied.
C8_UpdateBlankEndIsStart ==
    (Succeeded("updateBudget") /\ DateProp(last.data, "end_date") \in {JsUndefined, ""})
    => last.result[1].end_date = last.result[1].start_date

\* C8 amended: after a successful updateBudget that supplied a start_date
\* and whose end_date was omitted or '', the stored row has end_date equal
\* to start_date, which is the supplied one.
C8_UpdateBlankEndIsSuppliedStart ==
    (Succeeded("updateBudget") /\ "start_date" \in last.data.has
       /\ DateProp(last.data, "end_date") \in {JsUndefined, ""})
    => /\ last.result[1] \in budgets
       /\ last.result[1].start_date = last.data.start_date
       /\ last.result[1].end_date = last.result[1].start_date

C8_Witness ==
    /\ Succeeded("updateBudget")
    /\ last.data.has = {"start_date", "end_date"}
    /\ last.data.end_date = ""
    /\ last.result[1].end_date = D1
    /\ \E r \in budgets : r.id # last.result[1].id

\* C9: no stored budget has a null end_date, and no update sent to the
\* datastore carries end_date = null.
C9_EndDateNeverNull ==
    /\ \A r \in budgets : r.end_date # JsNull
    /\ \A i \in DOMAIN last.calls :
         last.calls[i].kind = "update" =>
           ~("end_date" \in last.calls[i].payload.has
             /\ last.calls[i].payload.end_date = JsNull)

\* C10: a successful updateBudget leaves every column that is absent from
\* the partial data as it was.
C10_UpdateTouchesOnlySupplied ==
    [][ (Idle /\ last'.op = "updateBudget" /\ last'.user \in Users /\ last'.thrown = "") =>
          \A r \in budgets :
            (r.id = last'.id /\ r.user_id = last'.user) =>
              \A c \in Columns \ last'.data.has : last'.result[1][c] = r[c] ]_vars

---------------------------------------------------------------------------
(* Claims about authentication *)

\* C11: getBudgets called when no user is signed in fails with the
\* authentication error and returns no result.
C11_ListRequiresOwner ==
    (last.op = "getBudgets" /\ last.user = NoUser /\ last.thrown # ClientFailed)
    => last.thrown = AuthRequired

\* The four actions that take the authentication for granted afterwards.
GuardedActions == {"getBudgetById", "createBudget", "updateBudget", "deleteBudget"}

\* C12: getBudgetById, createBudget, updateBudget and deleteBudget called
\* when no user is signed in (the client itself being available) throw the
\* authentication error, issue no datastore call and leave the table as it
\* was.
C12_GuardedActionsRequireOwner ==
    [][ (Idle /\ last'.op \in GuardedActions /\ last'.user = NoUser
           /\ last'.thrown # ClientFailed) =>
          /\ last'.thrown = AuthRequired
          /\ last'.calls = <<>>
          /\ last'.result = <<>>
          /\ budgets' = budgets ]_vars

\* deleteBudget of the id of a stored budget, called signed out, was refused.
C12_Witness ==
    /\ last.op = "deleteBudget"
    /\ last.user = NoUser
    /\ last.thrown = AuthRequired
    /\ \E r \in budgets : r.id = last.id

---------------------------------------------------------------------------
(* Claims about reading and deleting *)

\* The stored row the signed-in caller of the last action addressed, if any.
Addressed(rows, outcome) ==
    {r \in rows : r.id = outcome.id /\ r.user_id = outcome.user}

\* C13: getBudgetById by a signed-in user with an id that is not stored, or
\* that is stored for another owner, returns null and throws nothing.
C13_MissingBudgetIsNull ==
    (last.op = "getBudgetById" /\ last.user \in Users /\ PassedPreamble
       /\ Addressed(budgets, last) = {})
    => (last.thrown = "" /\ last.result = <<>>)

\* C14: getBudgets by a signed-in user returns exactly the rows that user
\* owns, newest start_date first, each with its stored columns, with
\* total_allocated the sum of the effective allocations of its stored
\* categories, and with categories [] and total_allocated 0 when none are
\* stored; it returns [] and throws nothing when the user owns no row.
C14_ListIsOwnersBudgetsNewestFirst ==
    (last.op = "getBudgets" /\ last.user \in Users /\ last.calls # <<>>) =>
      LET mine == {r \in budgets : r.user_id = last.user}
          res  == last.result
      IN  /\ last.thrown = ""
          /\ Len(res) = Cardinality(mine)
          /\ (mine = {} => res = <<>>)
          /\ \A i, j \in DOMAIN res :
               i < j => DateRank(res[i].start_date) >= DateRank(res[j].start_date)
          /\ \A r \in mine : \E i \in DOMAIN res :
               /\ res[i].id = r.id /\ res[i].name = r.name /\ res[i].amount = r.amount
               /\ res[i].start_date = r.start_date /\ res[i].end_date = r.end_date
               /\ IF r.categories = JNull
                  THEN res[i].categories = JArray(<<>>) /\ res[i].total_allocated = 0
                  ELSE /\ res[i].categories = r.categories
                       /\ res[i].total_allocated = SumEffective(0, r.categories.v)

\* The user's two budgets came back, the later one first, the first with the
\* total of the Trip tree.
C14_Witness ==
    /\ Succeeded("getBudgets")
    /\ Len(last.result) = 2
    /\ last.result[1].start_date = D2
    /\ last.result[2].start_date = D1
    /\ last.result[1].categories = JArray(TripTree)
    /\ last.result[1].total_allocated = 700

\* C15: deleteBudget by a signed-in user of an id that user has no row for
\* returns without error and leaves the table as it was; and after any
\* successful deleteBudget the same delete again removes nothing.
C15_DeleteIdempotent ==
    [][ (Idle /\ last'.op = "deleteBudget" /\ last'.user \in Users /\ last'.calls # <<>>) =>
          /\ Addressed(budgets, last') = {} => (last'.thrown = "" /\ budgets' = budgets)
          /\ last'.thrown = "" =>
                DbDelete(budgets', last'.id, last'.user, FALSE).rows = budgets' ]_vars

\* deleteBudget(2) returned without error when a single budget had ever
\* been created and it is stored under id 1.
C15_Witness ==
    /\ Succeeded("deleteBudget")
    /\ last.calls # <<>>
    /\ last.id = 2
    /\ nextId = 2
    /\ \E r \in budgets : r.id = 1 /\ r.user_id = last.user

\* C16: a successful deleteBudget removes exactly the row of that id owned
\* by the caller and leaves every other row as it was; and what the read
\* actions return is a stored row with its stored tree, so a deleted budget
\* is in no later result.
C16_DeleteRemovesWholeBudget ==
    /\ [][ (Idle /\ last'.op = "deleteBudget" /\ last'.user \in Users
              /\ last'.calls # <<>> /\ last'.thrown = "") =>
             /\ budgets' = budgets \ Addressed(budgets, last')
             /\ Addressed(budgets', last') = {} ]_vars
    /\ [](last.op \in {"getBudgets", "getBudgetById"} =>
            \A i \in DOMAIN last.result :
              \E r \in budgets :
                /\ r.id = last.result[i].id
                /\ r.user_id = last.user
                /\ last.result[i].categories \in {r.categories, JArray(CategoriesOrEmpty(r))})

\* deleteBudget(1) succeeded for the only budget ever created and the
\* table is empty.
C16_Witness ==
    /\ Succeeded("deleteBudget")
    /\ last.calls # <<>>
    /\ last.id = 1
    /\ nextId = 2
    /\ budgets = {}

---------------------------------------------------------------------------
(* Claims about datastore failures (checked under SpecFaults) *)

\* The error codes by which the datastore reports a column it does not have.
UnknownColumn(code) == code \in {"42703", "PGRST204"}

RetryingActions == {"getBudgets", "createBudget", "updateBudget"}

\* C17: when the first datastore call of getBudgets, createBudget or
\* updateBudget comes back with the unknown-column error, exactly one more
\* call follows, the same statement without categories and otherwise with
\* the same payload or column list; the action succeeds if that call
\* succeeds and otherwise throws with that call's error; and no action
\* issues more than two datastore calls.
C17_SchemaMismatchRetriedOnce ==
    /\ Len(last.calls) <= 2
    /\ (last.op \in RetryingActions /\ last.calls # <<>>
          /\ UnknownColumn(last.calls[1].error)) =>
         /\ Len(last.calls) = 2
         /\ last.calls[2].kind = last.calls[1].kind
         /\ "categories" \in last.calls[1].payload.has
         /\ last.calls[2].payload.has = last.calls[1].payload.has \ {"categories"}
         /\ \A c \in last.calls[2].payload.has :
              last.calls[2].payload[c] = last.calls[1].payload[c]
         /\ last.code = last.calls[2].error
         /\ (last.calls[2].error = NoError) <=> (last.thrown = "")
         /\ (last.calls[2].error = NoError /\ last.op # "getBudgets") => Len(last.result) = 1

\* createBudget met the missing column and its retry failed for a reason
\* of its own, which is the error thrown.
C17_Witness ==
    /\ last.op = "createBudget"
    /\ Len(last.calls) = 2
    /\ last.calls[1].error = SchemaCacheMiss
    /\ last.calls[2].error = ConnectionError
    /\ last.thrown = CreateFailed
    /\ last.code = ConnectionError

\* C18: when a datastore call fails with an error other than unknown
\* column, it is the last call of the action, the action throws with that
\* error, and the table is as it was before the action.
C18_OtherErrorsSurfaceWithoutRetry ==
    [][ (Idle /\ last'.op # "none") =>
          \A i \in DOMAIN last'.calls :
            (last'.calls[i].error # NoError /\ ~UnknownColumn(last'.calls[i].error)) =>
              /\ i = Len(last'.calls)
              /\ last'.thrown # ""
              /\ last'.code = last'.calls[i].error
              /\ last'.result = <<>>
              /\ budgets' = budgets ]_vars

\* The only call of updateBudget on a stored budget failed on the
\* connection and the action threw.
C18_Witness ==
    /\ last.op = "updateBudget"
    /\ Len(last.calls) = 1
    /\ last.calls[1].error = ConnectionError
    /\ last.thrown = UpdateFailed
    /\ Addressed(budgets, last) # {}

---------------------------------------------------------------------------
(* Claims about what is stored and read back *)

\* What createBudget stored is what was submitted: the row of the returned
\* id belongs to the caller and has the submitted name, amount, start_date
\* and category tree, and end_date = start_date when end_date was omitted.
StoredAsSubmitted ==
    \E r \in budgets :
      /\ r.id = last.result[1].id
      /\ r.user_id = last.user
      /\ r.name = last.data.name
      /\ r.amount = last.data.amount
      /\ r.start_date = last.data.start_date
      /\ r.categories = last.data.categories
      /\ "end_date" \notin last.data.has => r.end_date = r.start_date

\* getBudgetById returns the stored row of that id with total_allocated the
\* sum of the effective allocations of its tree (700 for the Trip tree).
ReadReturnsStored ==
    (Idle /\ last'.op = "getBudgetById" /\ last'.user \in Users /\ last'.thrown = ""
       /\ last'.calls # <<>>) =>
      \E r \in Addressed(budgets, last') :
        /\ Len(last'.result) = 1
        /\ \A c \in Columns : last'.result[1][c] = r[c]
        /\ last'.result[1].total_allocated = SumEffective(0, CategoriesOrEmpty(r))
        /\ r.categories = JArray(TripTree) => last'.result[1].total_allocated = 700

\* C19 as stated: after every successful createBudget the stored budget is
\* the submitted one, and getBudgetById returns the stored budget with its
\* total.
C19_CreateReadRoundTrip ==
    /\ [](Succeeded("createBudget") => StoredAsSubmitted)
    /\ [][ReadReturnsStored]_vars

\* C19, for a budgets table that has the categories column: after a
\* successful createBudget the stored budget is the submitted one, and
\* getBudgetById returns the stored budget with its total.
C19_CreateReadRoundTripWithColumn ==
    /\ []((Succeeded("createBudget") /\ hasCategoriesColumn) => StoredAsSubmitted)
    /\ [][ReadReturnsStored]_vars

\* getBudgetById returned a budget created as Trip, 1000, with no end_date:
\* the Trip tree, total 700, end_date = start_date.
C19_Witness ==
    /\ Succeeded("getBudgetById")
    /\ last.result[1].name = "Trip"
    /\ last.result[1].amount = 1000
    /\ last.result[1].categories = JArray(TripTree)
    /\ last.result[1].total_allocated = 700
    /\ last.result[1].end_date = last.result[1].start_date

\* C20: neither createBudget nor updateBudget fails because the categories
\* allocate more than the amount: with the datastore reachable, createBudget
\* with such a payload and updateBudget(id, {amount}) with an amount below
\* the budget's total both succeed, the update stores the amount and leaves
\* the tree, hence the total, as it was and above the amount.
C20_OverAllocationNotRejected ==
    [][ (Idle /\ last'.user \in Users /\ last'.calls # <<>>
           /\ \A i \in DOMAIN last'.calls : last'.calls[i].error # ConnectionError) =>
          /\ (last'.op = "createBudget"
                /\ last'.data.amount < SumEffective(0, last'.data.categories.v))
              => (last'.thrown = "" /\ last'.result[1].amount = last'.data.amount)
          /\ (last'.op = "updateBudget" /\ last'.data.has = {"amount"}) =>
                \A r \in Addressed(budgets, last') :
                  last'.data.amount < SumEffective(0, CategoriesOrEmpty(r)) =>
                    /\ last'.thrown = ""
                    /\ last'.result[1] \in budgets'
                    /\ last'.result[1].amount = last'.data.amount
                    /\ last'.result[1].categories = r.categories
                    /\ SumEffective(0, CategoriesOrEmpty(last'.result[1]))
                         > last'.result[1].amount ]_vars

\* updateBudget(id, {amount: 500}) succeeded on a budget that holds the
\* Trip tree, which allocates 700, while a second budget is stored with
\* amount 500 and the same tree.
C20_Witness ==
    /\ Succeeded("updateBudget")
    /\ last.data.has = {"amount"}
    /\ last.result[1].amount = 500
    /\ last.result[1].categories = JArray(TripTree)
    /\ calculateTotalAllocated(last.result[1].categories.v) = 700
    /\ \E r \in budgets :
         r.id # last.result[1].id /\ r.amount = 500 /\ r.categories = JArray(TripTree)

\* C25: every insert createBudget sends, the first and the fallback, carries
\* the caller's id as user_id, whatever user_id the submitted data had, and
\* the row a successful createBudget stored and returned is the caller's.
C25_CreatedBudgetOwnedByCaller ==
    (last.op = "createBudget" /\ last.user \in Users) =>
      /\ \A i \in DOMAIN last.calls :
           /\ "user_id" \in last.calls[i].payload.has
           /\ last.calls[i].payload.user_id = last.user
      /\ last.thrown = "" =>
           (last.result[1] \in budgets /\ last.result[1].user_id = last.user)

\* createBudget by one user with the other user's id in the data went
\* through the fallback insert and stored the caller's row.
C25_Witness ==
    /\ Succeeded("createBudget")
    /\ "user_id" \in last.data.has
    /\ last.data.user_id # last.user
    /\ Len(last.calls) = 2
    /\ last.result[1].user_id = last.user

---------------------------------------------------------------------------
(* SpecViews: the totals the user interface computes for a category tree *)

\* a + b on JavaScript numbers that may be NaN or undefined: anything but
\* two numbers gives NaN.
JsPlus(a, b) ==
    IF a.k = "number" /\ b.k = "number" THEN Num(JsAdd(a.n, b.n)) ELSE NaN

\* BudgetForm.totalAllocated (budget-menu.tsx, lines 167-177): reduce from
\* 0, a category adds its subcategories' total when it has any and
\* cat.amount as it is otherwise.
RECURSIVE formCalculateTotal(_)
formCalculateTotal(categories) ==
    IF categories = <<>> THEN Num(0)
    ELSE LET n        == Len(categories)
             cat      == categories[n]
             total    == formCalculateTotal(SubSeq(categories, 1, n - 1))
             subTotal == IF Len(cat.subcategories) > 0
                         THEN formCalculateTotal(cat.subcategories)
                         ELSE cat.amount
         IN  JsPlus(total, subTotal)

\* BudgetDetails.calculateTotal (budget-dashboard.tsx, lines 231-244): every
\* category adds category.amount || 0, and its subcategories' total on top
\* when it has any.
RECURSIVE dashboardCalculateTotal(_)
dashboardCalculateTotal(categories) ==
    IF categories = <<>> THEN 0
    ELSE LET n        == Len(categories)
             category == categories[n]
             total    == JsAdd(dashboardCalculateTotal(SubSeq(categories, 1, n - 1)),
                               AmountOrZero(category))
         IN  IF Len(category.subcategories) > 0
             THEN JsAdd(total, dashboardCalculateTotal(category.subcategories))
             ELSE total

\* sumJsonCategories (budget-detail.tsx, lines 102-115):
\* sum + (Number(cat.amount) || 0) + (cat.subcategories ? sum(subs) : 0).
RECURSIVE sumJsonCategories(_)
sumJsonCategories(categories) ==
    IF categories = <<>> THEN 0
    ELSE LET n   == Len(categories)
             cat == categories[n]
             sum == sumJsonCategories(SubSeq(categories, 1, n - 1))
         IN  JsAdd(JsAdd(sum, AmountOrZero(cat)), sumJsonCategories(cat.subcategories))

InitViews ==
    /\ cats \in Trees
    /\ baseCats = cats
    /\ treeOut = <<>>
    /\ budgets = {}
    /\ nextId = 1
    /\ hasCategoriesColumn = TRUE
    /\ last = EmptyOutcome
    /\ ViewsOff
    /\ BesideViewsOff

\* The form renders with cats as formData.categories.
RenderForm ==
    /\ formTotal = <<>>
    /\ formTotal' = <<formCalculateTotal(cats)>>
    /\ UNCHANGED <<treeVars, serverVars, besideViews, dashboardTotal, detailTotal>>

\* The dashboard renders BudgetDetails for a budget with categories cats.
RenderDashboard ==
    /\ dashboardTotal = <<>>
    /\ dashboardTotal' = <<dashboardCalculateTotal(cats)>>
    /\ UNCHANGED <<treeVars, serverVars, besideViews, formTotal, detailTotal>>

\* The detail page renders for a budget with JSONB categories cats.
RenderDetail ==
    /\ detailTotal = <<>>
    /\ detailTotal' = <<sumJsonCategories(cats)>>
    /\ UNCHANGED <<treeVars, serverVars, besideViews, formTotal, dashboardTotal>>

NextViews == Calculate \/ RenderForm \/ RenderDashboard \/ RenderDetail

SpecViews == InitViews /\ [][NextViews]_vars

\* C22: the total the budget form computes for a tree is the total
\* calculateTotalAllocated computes for it.
C22_FormTotalIsServerTotal ==
    formTotal # <<>> => formTotal[1] = Num(calculateTotalAllocated(cats))

\* C23: the totals BudgetDetails and the budget detail page show for a tree
\* are the total calculateTotalAllocated computes for it.
C23_ViewTotalsAreServerTotal ==
    /\ dashboardTotal # <<>> => dashboardTotal[1] = calculateTotalAllocated(cats)
    /\ detailTotal # <<>> => detailTotal[1] = calculateTotalAllocated(cats)

---------------------------------------------------------------------------
(* SpecForm: BudgetForm (budget-menu.tsx) *)

\* Categories the form holds at most (all levels together).
MaxFormNodes == 3

\* Values typed into the amount inputs; parseFloat(value) || 0 makes each a
\* number.
AmountInputs   == {0, 10, 50}
CategoryInputs == {0, 20}

\* The budget an edit form is opened on.
EditedBudget == [amount |-> 50, categories |-> <<Leaf(Num(20))>>]

RECURSIVE CountNodes(_)
CountNodes(categories) ==
    IF categories = <<>> THEN 0
    ELSE 1 + CountNodes(Head(categories).subcategories) + CountNodes(Tail(categories))

\* currentPath of every rendered category: the indexes from the root list
\* down to it.
RECURSIVE CategoryPaths(_)
CategoryPaths(categories) ==
    UNION { {<<i>>} \cup {<<i>> \o q : q \in CategoryPaths(categories[i].subcategories)}
            : i \in 1..Len(categories) }

\* handleCategoryChange(path, 'amount', value), lines 185-194.
RECURSIVE handleCategoryChange(_, _, _)
handleCategoryChange(categories, path, value) ==
    IF Len(path) = 1
    THEN [categories EXCEPT ![path[1]].amount = value]
    ELSE [categories EXCEPT ![path[1]].subcategories =
                                handleCategoryChange(@, Tail(path), value)]

\* addCategory(path), lines 196-208: a category of amount 0 is pushed to
\* the root list or to the subcategories of the category at path.
RECURSIVE addCategory(_, _)
addCategory(categories, path) ==
    IF path = <<>> THEN Append(categories, Leaf(Num(0)))
    ELSE [categories EXCEPT ![path[1]].subcategories = addCategory(@, Tail(path))]

\* removeCategory(path), lines 210-217: splice(index, 1) in the list the
\* category is in.
RECURSIVE removeCategory(_, _)
removeCategory(categories, path) ==
    IF Len(path) = 1
    THEN SubSeq(categories, 1, path[1] - 1)
           \o SubSeq(categories, path[1] + 1, Len(categories))
    ELSE [categories EXCEPT ![path[1]].subcategories = removeCategory(@, Tail(path))]

\* remainingAmount < 0, line 179 (a comparison with NaN is false).
RemainingNegative(data) ==
    LET totalAllocated == formCalculateTotal(data.categories)
    IN  totalAllocated.k = "number" /\ data.amount - totalAllocated.n < 0

\* handleSubmit, lines 219-238, up to the awaited call: updateBudget when
\* the form was opened on a budget, createBudget otherwise.
handleSubmit(data) ==
    /\ loading' = TRUE
    /\ formCall' = <<[op |-> IF formBudget # <<>> THEN "updateBudget" ELSE "createBudget",
                      data |-> data]>>

InitForm ==
    /\ cats = <<>> /\ baseCats = <<>> /\ treeOut = <<>>
    /\ budgets = {} /\ nextId = 1 /\ hasCategoriesColumn = TRUE /\ last = EmptyOutcome
    /\ BesideFormOff
    /\ \/ formBudget = <<>> /\ formData = [amount |-> 0, categories |-> <<>>]
       \/ formBudget = <<1>> /\ formData = EditedBudget
    /\ loading = FALSE
    /\ formCall = <<>>

\* The Total Budget Amount input changes.
ChangeAmount ==
    /\ \E value \in AmountInputs : formData' = [formData EXCEPT !.amount = value]
    /\ UNCHANGED <<formBudget, loading, formCall>>
    /\ UNCHANGED <<treeVars, serverVars, besideForm>>

\* The Amount input of a category changes.
ChangeCategoryAmount ==
    /\ \E path \in CategoryPaths(formData.categories), value \in CategoryInputs :
         formData' = [formData EXCEPT
                        !.categories = handleCategoryChange(@, path, Num(value))]
    /\ UNCHANGED <<formBudget, loading, formCall>>
    /\ UNCHANGED <<treeVars, serverVars, besideForm>>

\* "Add Category" or the plus button of a category is clicked (both are
\* type="button").
ClickAdd ==
    /\ CountNodes(formData.categories) < MaxFormNodes
    /\ \E path \in {<<>>} \cup CategoryPaths(formData.categories) :
         formData' = [formData EXCEPT !.categories = addCategory(@, path)]
    /\ UNCHANGED <<formBudget, loading, formCall>>
    /\ UNCHANGED <<treeVars, serverVars, besideForm>>

\* The trash button of a category is clicked.  The button has no type
\* (line 264), so inside the form it is a submit button: its onClick runs
\* removeCategory and the click then submits the form (it has no disabled
\* attribute).  Whether that submit is delivered, and to the handleSubmit of
\* the render before or after the removal, depends on whether the clicked
\* button is still attached to the form when the click's default action
\* runs; each of the three is possible.
ClickRemove ==
    /\ \E path \in CategoryPaths(formData.categories) :
         LET before == formData
             after  == [formData EXCEPT !.categories = removeCategory(@, path)]
         IN  /\ formData' = after
             /\ \/ UNCHANGED <<loading, formCall>>
                \/ handleSubmit(before)
                \/ handleSubmit(after)
    /\ UNCHANGED formBudget
    /\ UNCHANGED <<treeVars, serverVars, besideForm>>

\* The submit button is clicked: disabled={loading || remainingAmount < 0},
\* line 345.
ClickSubmit ==
    /\ ~loading
    /\ ~RemainingNegative(formData)
    /\ handleSubmit(formData)
    /\ UNCHANGED <<formBudget, formData>>
    /\ UNCHANGED <<treeVars, serverVars, besideForm>>

\* The awaited server action returns or throws: finally setLoading(false).
SubmitSettled ==
    /\ loading
    /\ loading' = FALSE
    /\ UNCHANGED <<formBudget, formData, formCall>>
    /\ UNCHANGED <<treeVars, serverVars, besideForm>>

NextForm ==
    \/ ChangeAmount
    \/ ChangeCategoryAmount
    \/ ClickAdd
    \/ ClickRemove
    \/ ClickSubmit
    \/ SubmitSettled

SpecForm == InitForm /\ [][NextForm]_vars

---------------------------------------------------------------------------
(* SpecRace: concurrent updateBudget calls on one budget *)

\* Two requests of the budget's owner, e.g. from two tabs.
Requests == {"r1", "r2"}

RaceOwner == "u1"
RaceId    == 1

\* The budget both requests update.
RaceBudget ==
    [id |-> RaceId, user_id |-> RaceOwner, name |-> "Trip", amount |-> 1000,
     start_date |-> D1, end_date |-> D2, categories |-> JArray(TripTree)]

\* Partial data of the racing updates: amount, start_date, end_date with
\* real dates.
RaceColumns  == {"amount", "start_date", "end_date"}
RacePayloads ==
    {p \in UpdatePayloads :
       /\ p.has \subseteq RaceColumns
       /\ "start_date" \in p.has => p.start_date \in RealDates
       /\ "end_date" \in p.has => p.end_date \in RealDates}

InitRace ==
    /\ cats = <<>> /\ baseCats = <<>> /\ treeOut = <<>>
    /\ budgets = {RaceBudget}
    /\ nextId = 2
    /\ hasCategoriesColumn = TRUE
    /\ last = EmptyOutcome
    /\ pending = [r \in Requests |-> <<>>]
    /\ supplied = [c \in RaceColumns |-> <<>>]
    /\ BesideRaceOff

\* updateBudget(id, budgetData) is called and prepares updateData (lines
\* 167-186): nothing of this reads the stored budget.
BeginUpdate ==
    /\ \E r \in Requests, data \in RacePayloads :
         /\ pending[r] = <<>>
         /\ UpdateData(data) # <<>>
         /\ pending' = [pending EXCEPT
                          ![r] = <<[data |-> data, updateData |-> UpdateData(data)[1]]>>]
    /\ UNCHANGED <<supplied, treeVars, serverVars, besideRace>>

\* The UPDATE of one request reaches the datastore (lines 188-194), which
\* applies it as one statement.
ApplyUpdate ==
    /\ \E r \in Requests :
         /\ pending[r] # <<>>
         /\ LET req  == pending[r][1]
                done == DbUpdate(budgets, req.updateData, RaceId, RaceOwner,
                                 hasCategoriesColumn, FALSE)
            IN  /\ budgets' = done.rows
                /\ supplied' = IF done.error # NoError THEN supplied
                               ELSE [c \in RaceColumns |->
                                       IF c \in req.data.has THEN <<req.data[c]>>
                                       ELSE supplied[c]]
         /\ pending' = [pending EXCEPT ![r] = <<>>]
    /\ UNCHANGED <<treeVars, nextId, hasCategoriesColumn, last, besideRace>>

NextRace == BeginUpdate \/ ApplyUpdate

SpecRace == InitRace /\ [][NextRace]_vars

\* C24: in every interleaving of updates of one budget, each column holds
\* the value supplied by the last applied update whose partial data
\* included that column.
C24_LastWriteWinsPerField ==
    \A r \in budgets : \A c \in RaceColumns :
      supplied[c] # <<>> => r[c] = supplied[c][1]

---------------------------------------------------------------------------
(* SpecMiddleware: the request middleware (src/middleware.ts) *)

\* A pathname is the sequence of its characters, so that startsWith is
\* what it is in the code.
LoginPath      == <<"/", "l", "o", "g", "i", "n">>
RegisterPath   == <<"/", "r", "e", "g", "i", "s", "t", "e", "r">>
VerifyPath     == <<"/", "v", "e", "r", "i", "f", "y">>
ForgotPath     ==
    <<"/", "f", "o", "r", "g", "o", "t", "-", "p", "a", "s", "s", "w", "o", "r", "d">>
ResetPath      ==
    <<"/", "r", "e", "s", "e", "t", "-", "p", "a", "s", "s", "w", "o", "r", "d">>
DebtPath       ==
    <<"/", "d", "e", "b", "t", "-", "m", "a", "n", "a", "g", "e", "m", "e", "n", "t">>
publicPaths    == {LoginPath, RegisterPath, VerifyPath, ForgotPath, ResetPath, DebtPath}

RootPath       == <<"/">>
DashboardPath  == <<"/", "d", "a", "s", "h", "b", "o", "a", "r", "d">>
BudgetsPath    == <<"/", "b", "u", "d", "g", "e", "t", "s">>
BudgetPath     == BudgetsPath \o <<"/", "1">>
LoginSubPath   == LoginPath \o <<"/", "x">>
LoginLikePath  == LoginPath \o <<"s">>
RequestedPaths ==
    publicPaths \cup {RootPath, DashboardPath, BudgetsPath, BudgetPath,
                      LoginSubPath, LoginLikePath}

\* pathname.startsWith(path)
StartsWith(pathname, path) ==
    Len(path) <= Len(pathname) /\ SubSeq(pathname, 1, Len(path)) = path

\* Line 17.
IsPublic(pathname) == \E path \in publicPaths : StartsWith(pathname, path)

\* What supabase.auth.getSession() does for the request's cookies: it
\* resolves with a session, resolves with session null (no cookie), resolves
\* with session null and an error (refresh failed), or rejects.
SessionLookups == {"session", "none", "error", "throws"}

NextResponse == [kind |-> "next", location |-> <<>>, redirectedFrom |-> <<>>]
Redirect(location, from) ==
    [kind |-> "redirect", location |-> location, redirectedFrom |-> from]

InitMiddleware ==
    /\ cats = <<>> /\ baseCats = <<>> /\ treeOut = <<>>
    /\ budgets = {} /\ nextId = 1 /\ hasCategoriesColumn = TRUE /\ last = EmptyOutcome
    /\ request = <<>>
    /\ awaitingSession = FALSE
    /\ response = <<>>
    /\ BesideMiddlewareOff

\* catch (error), lines 126-130.
onMiddlewareError(req) == NextResponse

\* middleware(request) up to `await supabase.auth.getSession()`, lines
\* 14-110: a public path is let through; createServerClient throws when the
\* Supabase URL or key is not configured.
middlewareReceives ==
    /\ request = <<>>
    /\ \E pathname \in RequestedPaths, lookup \in SessionLookups, configured \in BOOLEAN :
         LET req == [pathname |-> pathname, lookup |-> lookup, configured |-> configured]
         IN  /\ request' = <<req>>
             /\ IF IsPublic(pathname)
                THEN awaitingSession' = FALSE /\ response' = <<NextResponse>>
                ELSE IF ~configured
                THEN awaitingSession' = FALSE /\ response' = <<onMiddlewareError(req)>>
                ELSE awaitingSession' = TRUE /\ response' = <<>>
    /\ UNCHANGED <<treeVars, serverVars, besideMiddleware>>

\* The rest of middleware(request), lines 110-130.
middlewareResumes ==
    /\ awaitingSession
    /\ LET req == request[1]
       IN  response' =
             IF req.lookup = "throws" THEN <<onMiddlewareError(req)>>
             ELSE IF req.lookup # "session"
             THEN <<Redirect(LoginPath, req.pathname)>>
             ELSE IF IsPublic(req.pathname) THEN <<Redirect(DashboardPath, <<>>)>>
             ELSE <<NextResponse>>
    /\ awaitingSession' = FALSE
    /\ UNCHANGED <<request, treeVars, serverVars, besideMiddleware>>

\* The response has gone out; the next request comes in.
middlewareDone ==
    /\ response # <<>>
    /\ request' = <<>>
    /\ response' = <<>>
    /\ UNCHANGED <<awaitingSession, treeVars, serverVars, besideMiddleware>>

NextMiddleware == middlewareReceives \/ middlewareResumes \/ middlewareDone

SpecMiddleware == InitMiddleware /\ [][NextMiddleware]_vars

\* C26: a request for a non-public path for which no session was obtained
\* (none found, or obtaining it failed) is answered with a redirect to
\* /login whose redirectedFrom is the requested path.
C26_NoSessionRedirectsToLogin ==
    (response # <<>> /\ ~IsPublic(request[1].pathname)
       /\ ~(request[1].configured /\ request[1].lookup = "session"))
    => response[1] = Redirect(LoginPath, request[1].pathname)

---------------------------------------------------------------------------
(* SpecTemplates: budgets created from a template (BudgetTemplatesWrapper) *)

\* Categories of a template at most.
MaxTemplateCategories == 3

\* `|| 5000`, the amount of a template whose category amounts sum to 0.
DefaultIncomeFallback == 5000

\* A template category has an amount or none (the code reads it through
\* `as any` with `?? 0`) and may list subcategories of its own.
TemplateAmounts == {Undefined, Num(0), Num(10), Num(20), Num(2 ^ SignificandBits)}
TemplateCategories ==
    {Parent(a, subs) : a \in TemplateAmounts, subs \in {<<>>, <<Leaf(Num(10))>>}}

RECURSIVE SeqsUpTo(_, _)
SeqsUpTo(S, n) ==
    IF n = 0 THEN {<<>>}
    ELSE LET shorter == SeqsUpTo(S, n - 1)
         IN  shorter \cup {Append(q, x) : q \in {r \in shorter : Len(r) = n - 1}, x \in S}

\* LIFE_EVENT_TEMPLATES and LIFESTYLE_TEMPLATES, by their categories.
Templates == SeqsUpTo(TemplateCategories, MaxTemplateCategories)

\* amount ?? 0
AmountOrZeroIfNullish(amount) == IF amount.k = "undefined" THEN Num(0) ELSE amount

\* template.categories.reduce((acc, c) => acc + (c.amount ?? 0), 0)
RECURSIVE sumOfCategoryAmounts(_)
sumOfCategoryAmounts(categories) ==
    IF categories = <<>> THEN Num(0)
    ELSE LET n == Len(categories)
         IN  JsPlus(sumOfCategoryAmounts(SubSeq(categories, 1, n - 1)),
                    AmountOrZeroIfNullish(categories[n].amount))

\* Mutant: no fallback amount.
defaultIncomeNoFallback(categories) ==
    LET sum == sumOfCategoryAmounts(categories)
    IN  IF sum.k = "number" THEN sum.n ELSE 0

\* Line 53: the sum of the category amounts || 5000.
defaultIncome(categories) ==
    LET sum == sumOfCategoryAmounts(categories)
    IN  IF Truthy(sum) THEN sum.n ELSE DefaultIncomeFallback

\* Lines 56-63: main categories only, each with subcategories [].
formattedCategories(categories) ==
    [i \in 1..Len(categories) |-> Leaf(AmountOrZeroIfNullish(categories[i].amount))]

InitTemplates ==
    /\ cats = <<>> /\ baseCats = <<>> /\ treeOut = <<>>
    /\ budgets = {} /\ nextId = 1 /\ hasCategoriesColumn = TRUE /\ last = EmptyOutcome
    /\ selectedTemplate = <<>>
    /\ isLoading = FALSE
    /\ templateCall = <<>>
    /\ BesideTemplatesOff

\* A template card is chosen.
SelectTemplate ==
    /\ ~isLoading
    /\ \E template \in Templates : selectedTemplate' = <<template>>
    /\ UNCHANGED <<isLoading, templateCall, treeVars, serverVars, besideTemplates>>

\* handleApplyTemplate up to `await createBudget(newBudgetData)`, lines 43-73.
handleApplyTemplate ==
    /\ selectedTemplate # <<>>
    /\ ~isLoading
    /\ isLoading' = TRUE
    /\ templateCall' = <<[amount     |-> defaultIncome(selectedTemplate[1]),
                          categories |-> formattedCategories(selectedTemplate[1])]>>
    /\ UNCHANGED <<selectedTemplate, treeVars, serverVars, besideTemplates>>

\* createBudget returned or threw, the call is over: finally
\* setIsLoading(false).
ApplySettled ==
    /\ isLoading
    /\ isLoading' = FALSE
    /\ templateCall' = <<>>
    /\ UNCHANGED <<selectedTemplate, treeVars, serverVars, besideTemplates>>

NextTemplates == SelectTemplate \/ handleApplyTemplate \/ ApplySettled

SpecTemplates == InitTemplates /\ [][NextTemplates]_vars

\* C27: the budget handleApplyTemplate submits has an amount that is the
\* total allocated of its categories, or 5000 when that total is 0, hence
\* never below the total, and every submitted category has no
\* subcategories.
C27_TemplateBudgetNotOverAllocated ==
    templateCall # <<>> =>
      LET submitted == templateCall[1]
          total     == SumEffective(0, submitted.categories)
      IN  /\ submitted.amount >= calculateTotalAllocated(submitted.categories)
          /\ submitted.amount = IF total = 0 THEN 5000 ELSE total
          /\ \A i \in DOMAIN submitted.categories :
               submitted.categories[i].subcategories = <<>>

\* A template of categories 10 and 20, the second with a subcategory of its
\* own, was submitted as a budget of 30.
C27_Witness ==
    /\ templateCall # <<>>
    /\ selectedTemplate = <<<<Parent(Num(10), <<>>), Parent(Num(20), <<Leaf(Num(10))>>)>>>>
    /\ templateCall[1].amount = 30
    /\ Len(templateCall[1].categories) = 2

---------------------------------------------------------------------------
(* SpecPersistence: AuthPersistence over localStorage (client-persistence.ts) *)

\* The clock advances in ticks of this many milliseconds, up to MaxTicks.
TickMs == 1800000
MaxTicks == 4

\* Date.now(), in milliseconds.
DateNow(tick) == tick * TickMs

\* 60 * 60 * 1000, the default lifetime storeSession gives a session
\* without expires_at (line 32).
HourMs == 60 * 60 * 1000

\* The lifetime of an access token, in seconds.
TokenLifetimeSeconds == 3600

\* A Session of the auth client: expires_at is optional and, when present,
\* is the Unix time in SECONDS at which the access token expires.  An
\* optional field is <<>> or <<value>>.
Tokens == {"token1", "token2"}
SessionsIssuedBy(tick) ==
    [access_token  : Tokens,
     refresh_token : {"refresh"},
     user          : {"ann"},
     expires_at    : {<<>>} \cup
                     {<<DateNow(issued) \div 1000 + TokenLifetimeSeconds>> : issued \in 0..tick}]

\* JSON.stringify / JSON.parse and Number.toString / parseInt: the stored
\* items are strings, kept apart from the values they encode.
JSONStringify(value) == [json |-> value]
JSONParse(text)      == text.json
NumberToString(n)    == [digits |-> n]
ParseInt(text)       == text.digits

NoItems == [session |-> <<>>, expiry |-> <<>>]

\* Lines 28-33: the object storeSession serialises.
sessionData(session, tick) ==
    [access_token  |-> session.access_token,
     refresh_token |-> session.refresh_token,
     user          |-> session.user,
     expires_at    |-> IF session.expires_at = <<>> \/ session.expires_at = <<0>>
                       THEN DateNow(tick) + HourMs
                       ELSE session.expires_at[1]]

\* storeSession, lines 24-40: localStorage after the call.
storeSession(session, tick) ==
    [session |-> <<JSONStringify(sessionData(session, tick))>>,
     expiry  |-> <<NumberToString(sessionData(session, tick).expires_at)>>]

\* clearStoredSession, lines 70-79: localStorage after the call.
clearStoredSession == NoItems

\* getStoredSession, lines 45-65: what it returns (<<>> for null) and
\* localStorage after the call.
getStoredSession(items, tick) ==
    IF items.session = <<>> \/ items.expiry = <<>>
    THEN [returned |-> <<>>, items |-> items]
    ELSE IF DateNow(tick) > ParseInt(items.expiry[1])
    THEN [returned |-> <<>>, items |-> clearStoredSession]
    ELSE [returned |-> <<JSONParse(items.session[1])>>, items |-> items]

InitPersistence ==
    /\ cats = <<>> /\ baseCats = <<>> /\ treeOut = <<>>
    /\ budgets = {} /\ nextId = 1 /\ hasCategoriesColumn = TRUE /\ last = EmptyOutcome
    /\ now = 0
    /\ localStorage = NoItems
    /\ written = <<>>
    /\ read = <<>>
    /\ BesidePersistOff

\* Time passes.
Tick ==
    /\ now < MaxTicks
    /\ now' = now + 1
    /\ read' = <<>>
    /\ UNCHANGED <<localStorage, written, treeVars, serverVars, besidePersist>>

\* storeSession(session) with a session of the auth client.
StoreSession ==
    /\ \E session \in SessionsIssuedBy(now) :
         /\ localStorage' = storeSession(session, now)
         /\ written' = <<[session |-> session, at |-> now]>>
    /\ read' = <<>>
    /\ UNCHANGED <<now, treeVars, serverVars, besidePersist>>

\* getStoredSession().
GetStoredSession ==
    /\ localStorage' = getStoredSession(localStorage, now).items
    /\ read' = <<[returned |-> getStoredSession(localStorage, now).returned, at |-> now]>>
    /\ UNCHANGED <<now, written, treeVars, serverVars, besidePersist>>

NextPersistence == Tick \/ StoreSession \/ GetStoredSession

SpecPersistence == InitPersistence /\ [][NextPersistence]_vars

\* The time, in milliseconds, at which a written session expires: its
\* expires_at, which counts seconds, or an hour after the write when it has
\* none.
ExpiryMs(w) ==
    IF w.session.expires_at = <<>>
    THEN DateNow(w.at) + HourMs
    ELSE w.session.expires_at[1] * 1000

\* C28: getStoredSession returns the session last written by storeSession
\* whenever the current time is not past that session's expiry; whenever it
\* is past the expiry it returns null and leaves the session key and the
\* expiry key removed.
C28_StoreReadRoundTrip ==
    (read # <<>> /\ written # <<>>) =>
      IF DateNow(now) <= ExpiryMs(written[1])
      THEN read[1].returned = <<sessionData(written[1].session, written[1].at)>>
      ELSE read[1].returned = <<>> /\ localStorage = NoItems

---------------------------------------------------------------------------
(* SpecTabs: cross-tab session sync (AuthPersistence.initCrossTabSync) *)

Tabs == {"tabA", "tabB"}

\* Storage events queued per tab, and suspended calls per tab, at most.
MaxInbox == 2
MaxAwaiting == 1

LoginPathname == "/login"
DashboardPathname == "/dashboard"

\* Sessions the auth client hands out at a given time: one token, with or
\* without expires_at.
SessionsIssuedAt(tick) ==
    {s \in SessionsIssuedBy(tick) :
        /\ s.access_token = "token1"
        /\ s.expires_at \in {<<>>, <<DateNow(tick) \div 1000 + TokenLifetimeSeconds>>}}

\* A write of localStorage by tab `from` dispatches a storage event to every
\* other tab when it changes the item of AUTH_STORAGE_KEY.  Events for the
\* other keys (the expiry key, 'dripchecks_auth_event') are dropped by the
\* listener's test at line 89 and are not queued.
Dispatched(box, from, old, new) ==
    IF old.session = new.session THEN box
    ELSE [t \in Tabs |-> IF t = from THEN box[t]
                         ELSE Append(box[t], [newValue |-> new.session])]

RoomToDispatch(box, from) == \A t \in Tabs \ {from} : Len(box[t]) < MaxInbox

\* Suspended calls: getSession of restoreSessionIfNeeded (with the session
\* it resolves to), setSession of restoreSessionFromStorage, setSession of
\* restoreSessionIfNeeded (each with the two tokens it was given).
AwaitGetSession(value) == [call |-> "getSession", from |-> "restoreSessionIfNeeded", value |-> value]
AwaitSetSession(fn, stored) ==
    [call |-> "setSession", from |-> fn,
     value |-> <<[access_token |-> stored.access_token, refresh_token |-> stored.refresh_token]>>]

\* A page load evaluates the module: initCrossTabSync registers the
\* listeners and calls restoreSessionIfNeeded (line 120), which suspends on
\* getSession (line 166).
PageLoad == {AwaitGetSession(authSession)}

InitTabs ==
    /\ cats = <<>> /\ baseCats = <<>> /\ treeOut = <<>>
    /\ budgets = {} /\ nextId = 1 /\ hasCategoriesColumn = TRUE /\ last = EmptyOutcome
    /\ now \in {0, 1}
    /\ localStorage = NoItems
    /\ written = <<>>
    /\ read = <<>>
    /\ locationPathname = [t \in Tabs |-> LoginPathname]
    /\ inbox = [t \in Tabs |-> <<>>]
    /\ awaiting = [t \in Tabs |-> {}]
    /\ authSession = <<>>
    /\ lastAuthEvent = "none"
    /\ BesideTabsOff

\* What no action of the tabs changes.
tabFrame == <<now, written, read, treeVars, serverVars, besideTabs>>

\* onAuthStateChange, lines 106-109: the user signs in on the login page of
\* tab t and the auth client notifies SIGNED_IN.
SignedIn(t) ==
    /\ locationPathname[t] = LoginPathname
    /\ RoomToDispatch(inbox, t)
    /\ \E session \in SessionsIssuedAt(now) :
         /\ authSession' = <<session>>
         /\ localStorage' = storeSession(session, now)
         /\ inbox' = Dispatched(inbox, t, localStorage, storeSession(session, now))
    /\ lastAuthEvent' = "SIGNED_IN"
    /\ UNCHANGED <<locationPathname, awaiting, tabFrame>>

\* onAuthStateChange, lines 110-113: the user signs out in tab t and the
\* auth client notifies SIGNED_OUT.
SignedOut(t) ==
    /\ authSession # <<>>
    /\ RoomToDispatch(inbox, t)
    /\ authSession' = <<>>
    /\ localStorage' = clearStoredSession
    /\ inbox' = Dispatched(inbox, t, localStorage, clearStoredSession)
    /\ lastAuthEvent' = "SIGNED_OUT"
    /\ UNCHANGED <<locationPathname, awaiting, tabFrame>>

\* onAuthStateChange, lines 114-116: the auth client of tab t refreshed the
\* token.
TokenRefreshed(t) ==
    /\ authSession # <<>>
    /\ RoomToDispatch(inbox, t)
    /\ \E session \in SessionsIssuedAt(now) :
         /\ authSession' = <<session>>
         /\ localStorage' = storeSession(session, now)
         /\ inbox' = Dispatched(inbox, t, localStorage, storeSession(session, now))
    /\ lastAuthEvent' = "TOKEN_REFRESHED"
    /\ UNCHANGED <<locationPathname, awaiting, tabFrame>>

\* The application routes tab t to the dashboard after a sign-in (a
\* client-side transition: the module is not evaluated again).
RouteToDashboard(t) ==
    /\ locationPathname[t] = LoginPathname
    /\ authSession # <<>>
    /\ locationPathname' = [locationPathname EXCEPT ![t] = DashboardPathname]
    /\ UNCHANGED <<localStorage, inbox, awaiting, authSession, lastAuthEvent, tabFrame>>

\* The user reloads tab t.
Reload(t) ==
    /\ awaiting' = [awaiting EXCEPT ![t] = PageLoad]
    /\ inbox' = [inbox EXCEPT ![t] = <<>>]
    /\ UNCHANGED <<localStorage, locationPathname, authSession, lastAuthEvent, tabFrame>>

\* The storage listener of tab t, lines 88-102, with a new value:
\* restoreSessionFromStorage up to its await (lines 143-151).
StorageValueSet(t) ==
    /\ inbox[t] # <<>>
    /\ Head(inbox[t]).newValue # <<>>
    /\ RoomToDispatch(inbox, t)
    /\ LET got == getStoredSession(localStorage, now)
       IN  /\ localStorage' = got.items
           /\ inbox' = Dispatched([inbox EXCEPT ![t] = Tail(@)], t, localStorage, got.items)
           /\ IF got.returned = <<>>
              THEN awaiting' = awaiting
              ELSE /\ Cardinality(awaiting[t]) < MaxAwaiting
                   /\ awaiting' = [awaiting EXCEPT
                        ![t] = @ \cup {AwaitSetSession("restoreSessionFromStorage", got.returned[1])}]
    /\ UNCHANGED <<locationPathname, authSession, lastAuthEvent, tabFrame>>

\* The storage listener of tab t, lines 94-100, with the session key
\* removed: clearStoredSession, then a navigation to /login unless the tab
\* is there.  The navigation loads the page anew.
StorageValueRemoved(t) ==
    /\ inbox[t] # <<>>
    /\ Head(inbox[t]).newValue = <<>>
    /\ RoomToDispatch(inbox, t)
    /\ localStorage' = clearStoredSession
    /\ IF locationPathname[t] # LoginPathname
       THEN /\ locationPathname' = [locationPathname EXCEPT ![t] = LoginPathname]
            /\ awaiting' = [awaiting EXCEPT ![t] = PageLoad]
            /\ inbox' = Dispatched([inbox EXCEPT ![t] = <<>>], t, localStorage, clearStoredSession)
       ELSE /\ locationPathname' = locationPathname
            /\ awaiting' = awaiting
            /\ inbox' = Dispatched([inbox EXCEPT ![t] = Tail(@)], t, localStorage, clearStoredSession)
    /\ UNCHANGED <<authSession, lastAuthEvent, tabFrame>>

\* restoreSessionIfNeeded of tab t resumes after getSession, lines 166-181.
GetSessionResolved(t) ==
    /\ RoomToDispatch(inbox, t)
    /\ \E p \in awaiting[t] :
         /\ p.call = "getSession"
         /\ IF p.value # <<>>
            THEN /\ localStorage' = storeSession(p.value[1], now)
                 /\ awaiting' = [awaiting EXCEPT ![t] = @ \ {p}]
            ELSE LET got == getStoredSession(localStorage, now)
                 IN  /\ localStorage' = got.items
                     /\ awaiting' = [awaiting EXCEPT ![t] =
                          (@ \ {p}) \cup
                          IF got.returned = <<>> THEN {}
                          ELSE {AwaitSetSession("restoreSessionIfNeeded", got.returned[1])}]
    /\ inbox' = Dispatched(inbox, t, localStorage, localStorage')
    /\ UNCHANGED <<locationPathname, authSession, lastAuthEvent, tabFrame>>

\* How a call of setSession ends: it resolves with a session (the auth
\* client then holds it and notifies SIGNED_IN), resolves with an error, or
\* rejects.
SetSessionOutcomes == {"session", "error", "rejects"}

\* The sessions setSession can resolve with for the given tokens.
RestoredSessions(given, tick) ==
    {s \in SessionsIssuedAt(tick) :
        s.access_token = given.access_token /\ s.refresh_token = given.refresh_token}

\* restoreSessionFromStorage of tab t resumes after setSession, lines
\* 148-155, or restoreSessionIfNeeded does, lines 178-194.
SetSessionResolved(t) ==
    /\ RoomToDispatch(inbox, t)
    /\ \E p \in {q \in awaiting[t] : q.call = "setSession"}, outcome \in SetSessionOutcomes :
       \E restored \in RestoredSessions(p.value[1], now) :
         /\ awaiting' = [awaiting EXCEPT ![t] = @ \ {p}]
         /\ CASE outcome = "session" ->
                   \* SIGNED_IN is notified (lines 106-109) and, in
                   \* restoreSessionIfNeeded, line 190 stores the same again.
                   /\ authSession' = <<restored>>
                   /\ lastAuthEvent' = "SIGNED_IN"
                   /\ localStorage' = storeSession(restored, now)
              [] outcome = "error" ->
                   /\ UNCHANGED <<authSession, lastAuthEvent>>
                   /\ localStorage' = IF p.from = "restoreSessionIfNeeded"
                                      THEN clearStoredSession ELSE localStorage
              [] outcome = "rejects" ->
                   /\ UNCHANGED <<authSession, lastAuthEvent>>
                   /\ localStorage' = IF p.from = "restoreSessionFromStorage"
                                      THEN clearStoredSession ELSE localStorage
    /\ inbox' = Dispatched(inbox, t, localStorage, localStorage')
    /\ UNCHANGED <<locationPathname, tabFrame>>

NextTabs ==
    \E t \in Tabs :
        \/ SignedIn(t)
        \/ SignedOut(t)
        \/ TokenRefreshed(t)
        \/ RouteToDashboard(t)
        \/ Reload(t)
        \/ StorageValueSet(t)
        \/ StorageValueRemoved(t)
        \/ GetSessionResolved(t)
        \/ SetSessionResolved(t)

SpecTabs == InitTabs /\ [][NextTabs]_vars

\* No storage event is waiting and no async function is suspended.
TabsQuiet == \A t \in Tabs : inbox[t] = <<>> /\ awaiting[t] = {}

\* C29: a tab that handles SIGNED_OUT removes the stored session; a tab
\* that receives the storage event for the removed session key ends with no
\* stored session and on /login; and once the tabs are quiet after a
\* sign-out that was the last auth event, no session is stored.
C29_SignOutPropagates ==
    /\ [][\A t \in Tabs :
            /\ SignedOut(t) => localStorage' = NoItems
            /\ StorageValueRemoved(t) =>
                 localStorage' = NoItems /\ locationPathname'[t] = LoginPathname]_vars
    /\ []((TabsQuiet /\ lastAuthEvent = "SIGNED_OUT") => localStorage.session = <<>>)

---------------------------------------------------------------------------
(* SpecBills: the bill-paid trigger (20250718_gamification_triggers.sql) *)

\* Updates of one bill, and days, at most.
MaxBillUpdates == 3
MaxDays == 2

\* Points of a paid bill, line 45.
BillPaidPoints == 15

\* A text column is NULL or holds a string.
SqlNull == [isNull |-> TRUE, text |-> ""]
SqlText(s) == [isNull |-> FALSE, text |-> s]

BillIds == {"bill1", "bill2"}
BillUsers == {"ann", "bob"}
BillStatuses == {SqlNull, SqlText("pending"), SqlText("overdue"), SqlText("paid")}

\* a = b of SQL is NULL when either side is; an IF takes NULL as false.
SqlEqualsIsTrue(a, b) == ~a.isNull /\ ~b.isNull /\ a.text = b.text

\* a IS DISTINCT FROM b: never NULL, two NULLs are not distinct.
SqlIsDistinctFrom(a, b) ==
    IF a.isNull \/ b.isNull THEN a.isNull # b.isNull ELSE a.text # b.text

\* record_daily_activity, lines 4-11: insert ... on conflict (user_id,
\* activity_date, activity_type) do nothing.
record_daily_activity(rows, p_user, p_type, date) ==
    LET row == [user_id |-> p_user, activity_date |-> date, activity_type |-> p_type]
    IN  IF \E i \in DOMAIN rows : rows[i] = row THEN rows ELSE Append(rows, row)

\* Mutant: the old status is not looked at.
bill_paid_condition_new_only(tgOp, old, new) ==
    tgOp = "UPDATE" /\ SqlEqualsIsTrue(new.status, SqlText("paid"))

\* Line 44: TG_OP = 'UPDATE' and NEW.status = 'paid' and OLD.status is
\* distinct from 'paid'.
bill_paid_condition(tgOp, old, new) ==
    /\ tgOp = "UPDATE"
    /\ SqlEqualsIsTrue(new.status, SqlText("paid"))
    /\ SqlIsDistinctFrom(old.status, SqlText("paid"))

InitBills ==
    /\ cats = <<>> /\ baseCats = <<>> /\ treeOut = <<>>
    /\ budgets = {} /\ nextId = 1 /\ hasCategoriesColumn = TRUE /\ last = EmptyOutcome
    /\ bills \in [BillIds -> [user_id : BillUsers, status : BillStatuses]]
    /\ currentDate = 1
    /\ daily_activity = <<>>
    /\ awarded = [b \in BillIds |-> 0]
    /\ transitions = [b \in BillIds |-> [intoPaid |-> 0, updates |-> 0, paidOn |-> {}]]
    /\ BesideBillsOff

\* update public.bills set status = ... where id = b, and with it
\* trg_bill_paid_gamification (after update, for each row), lines 41-62.
UpdateBill(b) ==
    /\ transitions[b].updates < MaxBillUpdates
    /\ \E status \in BillStatuses :
         LET oldRow == bills[b]
             newRow == [oldRow EXCEPT !.status = status]
             fires == bill_paid_condition("UPDATE", oldRow, newRow)
             becomesPaid == (oldRow.status.isNull \/ oldRow.status.text # "paid")
                            /\ ~status.isNull /\ status.text = "paid"
         IN  /\ bills' = [bills EXCEPT ![b] = newRow]
             /\ awarded' = [awarded EXCEPT ![b] = IF fires THEN @ + BillPaidPoints ELSE @]
             /\ daily_activity' =
                  IF fires
                  THEN record_daily_activity(daily_activity, newRow.user_id, "bill_paid", currentDate)
                  ELSE daily_activity
             /\ transitions' = [transitions EXCEPT ![b] =
                  [intoPaid |-> IF becomesPaid THEN @.intoPaid + 1 ELSE @.intoPaid,
                   updates  |-> @.updates + 1,
                   paidOn   |-> IF becomesPaid THEN @.paidOn \cup {currentDate} ELSE @.paidOn]]
    /\ UNCHANGED <<currentDate, treeVars, serverVars, besideBills>>

\* Midnight.
NextDay ==
    /\ currentDate < MaxDays
    /\ currentDate' = currentDate + 1
    /\ UNCHANGED <<bills, daily_activity, awarded, transitions, treeVars, serverVars, besideBills>>

NextBills == (\E b \in BillIds : UpdateBill(b)) \/ NextDay

SpecBills == InitBills /\ [][NextBills]_vars

\* C30: the points awarded for a bill are 15 times the number of its
\* updates from a status other than 'paid' into 'paid'; daily_activity has
\* a 'bill_paid' row for a user and a date exactly when a bill of the user
\* became paid on that date, and never two rows for the same user, date and
\* activity type.
C30_BillPaidAwardsOncePerTransition ==
    /\ \A b \in BillIds : awarded[b] = 15 * transitions[b].intoPaid
    /\ \A i, j \in DOMAIN daily_activity :
         daily_activity[i] = daily_activity[j] => i = j
    /\ \A u \in BillUsers, d \in 1..MaxDays :
         (\E i \in DOMAIN daily_activity :
             daily_activity[i] = [user_id |-> u, activity_date |-> d, activity_type |-> "bill_paid"])
         <=> (\E b \in BillIds : bills[b].user_id = u /\ d \in transitions[b].paidOn)

\* A bill was paid, updated while paid, reopened and paid again on the same
\* day: 30 points, one row.
C30_Witness ==
    \E b \in BillIds :
        /\ transitions[b].intoPaid = 2
        /\ transitions[b].updates = 3
        /\ awarded[b] = 30
        /\ Len(daily_activity) = 1
        /\ bills[b].status = SqlText("paid")

====
